---- MODULE Spec2Model ----
(***************************************************************************)
(* A model of the grundzeug dependency-injection container: a hierarchy of *)
(* containers, the registration lifecycles, the resolver cache and the     *)
(* plugin protocol (register / create_initial_state / reduce /             *)
(* postprocess) as driven by Container.try_resolve_bean.                   *)
(*                                                                         *)
(* A Python exception is modelled as an outcome: an operation that raises  *)
(* leaves the state as the code leaves it at the raise and records the     *)
(* exception's class name in `result`.                                     *)
(***************************************************************************)
EXTENDS Integers, Sequences, FiniteSets, TLC

\* ------------------------------------------------------------------ bounds
MaxContainers == 3
MaxRegistrations == 3
MaxInvocations == 3
MaxScopes == 2
MaxBeans == 1
MaxNamed == 2
MaxPlugins == 5
MaxConverters == 2
MaxProviders == 2

\* ------------------------------------------------------------- input sets
Plain(t) == [origin |-> "None", args |-> <<t>>]
Generic(o, a) == [origin |-> o, args |-> a]

IBean == Plain("IBean")
Injector == Plain("Injector")
ContainerContract == Plain("Container")
BeanListIBean == Generic("BeanList", <<"IBean">>)

Contracts == {IBean, BeanListIBean, Injector, ContainerContract}
NoName == "None"
Names == {NoName, "x", "y"}
Instances == {1, 2}
FactoryTypes == {"Container", "Transient", "Hierarchical"}

\* The classes converters are declared between: Derived is a subclass of Base,
\* typing.Any and typing.Optional[typing.Any].
Types == {"Any", "OptionalAny", "Base", "Derived"}
Converter(TFrom, TTo) == Generic("Converter", <<TFrom, TTo>>)
generic_TFrom(contract) == contract.args[1]
generic_TTo(contract) == contract.args[2]
\* the converters that get registered, and the ones that get requested
RegisteredConverters ==
    {Converter("Any", "Derived"), Converter("Base", "Derived"),
     Converter("Base", "Base"), Converter("Derived", "Derived")}
RequestedConverters == {Converter("Derived", "Base"), Converter("Base", "Derived")}
\* converters whose input types accept any type
AnyConverters ==
    {Converter("Any", "Derived"), Converter("OptionalAny", "Derived"),
     Converter("Base", "Derived")}

\* Configuration: ExampleConfigurationClass has the field property at key baz,
\* without a default, and the field default_property at key boo, with one;
\* StrictConfigurationClass has these two and a field at key bar, without a
\* default. A provider is named by a number and holds the keys ProviderKeys
\* gives it.
ExampleConfigurationClass == Generic("configuration", <<"ExampleConfigurationClass">>)
StrictConfigurationClass == Generic("configuration", <<"StrictConfigurationClass">>)
Configurable(path) == Generic("Configurable", <<path>>)
ConfigurationContracts ==
    {ExampleConfigurationClass, Configurable("baz"), Configurable("boo")}
StrictContracts == {StrictConfigurationClass, Configurable("bar")}
BeanListConfigurationProvider == Generic("BeanList", <<"ConfigurationProvider">>)
ProviderKeys == <<{"baz", "boo"}, {"baz"}, {"boo"}, {"bar"}>>
Providers == {n \in DOMAIN ProviderKeys : "bar" \notin ProviderKeys[n]}
StrictProviders == {n \in DOMAIN ProviderKeys : "boo" \notin ProviderKeys[n]}

\* The plugins a hierarchy can have: the three of Container.__init__ and the
\* two that add_plugin brings.
DefaultPlugins == <<"BeanList", "SingleValue", "Special">>
AddedPlugins == {"Converter", "Configuration"}
PluginNames == {"BeanList", "SingleValue", "Special"} \cup AddedPlugins

\* ---------------------------------------------------------------- helpers
Put(m, k, v) == [x \in (DOMAIN m) \cup {k} |-> IF x = k THEN v ELSE m[x]]
Remove(m, k) == [x \in (DOMAIN m) \ {k} |-> m[x]]
EmptyMap == <<>>

\* ----------------------------------------------------------------- values
Value(src, id) == [src |-> src, id |-> id, beans |-> <<>>]
None == Value("None", 0)
BEAN_NOT_FOUND == Value("BEAN_NOT_FOUND", 0)
InstanceValue(i) == Value("instance", i)
FactoryValue(n) == Value("factory", n)
ContainerValue(c) == Value("Container", c)
ContainerInjector(c) == Value("ContainerInjector", c)
BeanList(vs) == [src |-> "BeanList", id |-> 0, beans |-> vs]
\* configuration: the provider object n, the value it holds under a key, the
\* declared default of a key, the sentinel, and a configuration class bean
ProviderValue(n) == Value("ConfigurationProvider", n)
ProvidedValue(path, n) == Value(path, n)
DefaultValue(path) == Value(path, 0)
MISSING == Value("MISSING", 0)
ConfigurationBean(clazz, vs) == [src |-> clazz.args[1], id |-> 0, beans |-> vs]

RegistrationKey(contract, name) == [bean_contract |-> contract, bean_name |-> name]
Keys == {RegistrationKey(t, n) : t \in Contracts, n \in Names}

\* one key of every contract shape
ShapeKeys == {RegistrationKey(t, NoName) : t \in Contracts}
\* Two Single-Value keys of one contract.
FrameKeys == {RegistrationKey(IBean, NoName), RegistrationKey(IBean, "x")}
\* Contracts that make the plugins answer in every way.
ProtocolContracts == {IBean, BeanListIBean, Configurable("boo")}

VARIABLES
    parent,          \* parent[c]: the parent of container c, 0 for the root
    plugins,         \* plugins[c]: the _plugins list of c, empty unless c is a root
    plugin_storage,  \* plugin_storage[c][p]: plugin p's registry on c
    cache,           \* cache[c]: RegistrationKey -> cached BeanResolver
    registrations,   \* the registration objects, in creation order
    invocations,     \* invocations[n]: the registration whose factory made value n
    result           \* what the last operation returned or raised

vars == <<parent, plugins, plugin_storage, cache, registrations, invocations, result>>

Containers == 1 .. Len(parent)

\* Container.plugins: the list of the root of c's hierarchy.
RECURSIVE PluginsOf(_)
PluginsOf(c) == IF parent[c] # 0 THEN PluginsOf(parent[c]) ELSE plugins[c]

\* ------------------------------------------------------------ registrations
\* The factories a registration can hold: one that makes a bean, one that
\* raises, and one with a parameter annotated with the Dependency key, which
\* inject resolves before the factory runs.
Factories == {"make", "fail", "inject"}
Dependency == RegistrationKey(IBean, "x")

InstanceContainerRegistration(c, key, instance) ==
    [container |-> c, key |-> key, type |-> "Instance", instance |-> instance,
     factory |-> "none", registered |-> FALSE, value |-> None, values |-> EmptyMap]

\* __init__(container, key, factory) of the three factory registrations
FactoryContainerRegistration_init(c, key, type, factory) ==
    [container |-> c, key |-> key, type |-> type, instance |-> None,
     factory |-> factory, registered |-> FALSE, value |-> None, values |-> EmptyMap]

FactoryContainerRegistration(c, key, type) ==
    FactoryContainerRegistration_init(c, key, type, "make")

\* registration(container): the value it returns or the error it raises, the
\* registration objects and the log of completed factory calls after it, and
\* the cache entries that the resolutions made by inject have put. A factory
\* call that returns appends to inv; the value it makes is named by its
\* position in the log.
Called_init(value, regs, inv, exc, puts) ==
    [value |-> value, registrations |-> regs, invocations |-> inv,
     exc |-> exc, puts |-> puts]
Called(value, regs, inv) == Called_init(value, regs, inv, "", <<>>)

\* A bean made by the factory of invocation n from the dependency dep.
BuiltValue(n, dep) == [src |-> "factory", id |-> n, beans |-> <<dep>>]

RECURSIVE resolve_bean(_, _, _)

\* get_kwargs_to_inject with dep what container.resolve_bean has answered for
\* the annotated parameter, then the call of the factory
inject_resolved(c, n, dep) ==
    IF dep.kind = "Raise"
    THEN [value |-> None, exc |-> dep.exc, puts |-> <<>>]
    ELSE [value |-> BuiltValue(n, dep.value), exc |-> "",
          puts |-> IF Dependency \in DOMAIN dep.cache[c]
                   THEN <<[container |-> c, key |-> Dependency,
                           resolver |-> dep.cache[c][Dependency]]>>
                   ELSE <<>>]

\* container.inject(factory)(), n being the number of the invocation
inject_call(c, n, factory) ==
    CASE factory = "make" -> [value |-> FactoryValue(n), exc |-> "", puts |-> <<>>]
      [] factory = "fail" -> [value |-> None, exc |-> "ProducerError", puts |-> <<>>]
      [] factory = "inject" ->
            inject_resolved(c, n, resolve_bean(c, Dependency.bean_contract,
                                               Dependency.bean_name))

InstanceContainerRegistration_call(regs, inv, r, container) ==
    Called(regs[r].instance, regs, inv)

\* mutant: the factory is called again on every call
ContainerFactoryContainerRegistration_call_again(regs, inv, r, container) ==
    LET fresh == FactoryValue(Len(inv) + 1)
    IN  Called(fresh,
               [regs EXCEPT ![r].registered = TRUE, ![r].value = fresh],
               Append(inv, r))

\* self._registered = True; self._value = made, made being what
\* self.container.inject(self.factory)() has returned or raised
ContainerFactoryContainerRegistration_assign(regs, inv, r, made) ==
    IF made.exc # ""
    THEN Called_init(None, [regs EXCEPT ![r].registered = TRUE], inv, made.exc, made.puts)
    ELSE Called_init(made.value,
                     [regs EXCEPT ![r].registered = TRUE, ![r].value = made.value],
                     Append(inv, r), "", made.puts)

\* mutant: the factory is injected from the requesting container
ContainerFactoryContainerRegistration_call_requester(regs, inv, r, container) ==
    IF ~regs[r].registered
    THEN ContainerFactoryContainerRegistration_assign(
             regs, inv, r, inject_call(container, Len(inv) + 1, regs[r].factory))
    ELSE Called(regs[r].value, regs, inv)

ContainerFactoryContainerRegistration_call(regs, inv, r, container) ==
    IF ~regs[r].registered
    THEN ContainerFactoryContainerRegistration_assign(
             regs, inv, r, inject_call(regs[r].container, Len(inv) + 1, regs[r].factory))
    ELSE Called(regs[r].value, regs, inv)

\* mutant: the first bean made is kept and returned again
TransientFactoryContainerRegistration_call_kept(regs, inv, r, container) ==
    LET fresh == FactoryValue(Len(inv) + 1)
    IN  IF ~regs[r].registered
        THEN Called(fresh,
                    [regs EXCEPT ![r].registered = TRUE, ![r].value = fresh],
                    Append(inv, r))
        ELSE Called(regs[r].value, regs, inv)

\* return made, made being what container.inject(self.factory)() has
\* returned or raised
TransientFactoryContainerRegistration_return(regs, inv, r, made) ==
    IF made.exc # ""
    THEN Called_init(None, regs, inv, made.exc, made.puts)
    ELSE Called_init(made.value, regs, Append(inv, r), "", made.puts)

TransientFactoryContainerRegistration_call(regs, inv, r, container) ==
    TransientFactoryContainerRegistration_return(
        regs, inv, r, inject_call(container, Len(inv) + 1, regs[r].factory))

\* mutant: the bean is kept under the owning container, not the requesting one
HierarchicalFactoryContainerRegistration_call_owner(regs, inv, r, container) ==
    LET fresh == FactoryValue(Len(inv) + 1)
        owner == regs[r].container
    IN  IF owner \notin DOMAIN regs[r].values
        THEN Called(fresh,
                    [regs EXCEPT ![r].values = Put(regs[r].values, owner, fresh)],
                    Append(inv, r))
        ELSE Called(regs[r].values[owner], regs, inv)

\* self._values[container] = made, made being what
\* container.inject(self.factory)() has returned or raised
HierarchicalFactoryContainerRegistration_assign(regs, inv, r, container, made) ==
    IF made.exc # ""
    THEN Called_init(None, regs, inv, made.exc, made.puts)
    ELSE Called_init(made.value,
                     [regs EXCEPT ![r].values = Put(regs[r].values, container, made.value)],
                     Append(inv, r), "", made.puts)

HierarchicalFactoryContainerRegistration_call(regs, inv, r, container) ==
    IF container \notin DOMAIN regs[r].values
    THEN HierarchicalFactoryContainerRegistration_assign(
             regs, inv, r, container,
             inject_call(container, Len(inv) + 1, regs[r].factory))
    ELSE Called(regs[r].values[container], regs, inv)

CallRegistration(regs, inv, r, container) ==
    CASE regs[r].type = "Instance" ->
            InstanceContainerRegistration_call(regs, inv, r, container)
      [] regs[r].type = "Container" ->
            ContainerFactoryContainerRegistration_call(regs, inv, r, container)
      [] regs[r].type = "Transient" ->
            TransientFactoryContainerRegistration_call(regs, inv, r, container)
      [] regs[r].type = "Hierarchical" ->
            HierarchicalFactoryContainerRegistration_call(regs, inv, r, container)

\* ---------------------------------------------------------------- resolvers
ValueBeanResolver(value) ==
    [kind |-> "Value", value |-> value, is_cacheable |-> TRUE]
\* RegistrationBeanResolver(container, registration, is_cacheable), and with
\* the default is_cacheable=True, as every plugin creates it
RegistrationBeanResolver_init(r, c, is_cacheable) ==
    [kind |-> "Registration", registration |-> r, container |-> c,
     is_cacheable |-> is_cacheable]
RegistrationBeanResolver(r, c) == RegistrationBeanResolver_init(r, c, TRUE)

\* mutant: cacheable as soon as one constituent is
MultiBeanResolver_any(resolvers) ==
    [kind |-> "Multi", resolvers |-> resolvers,
     is_cacheable |-> \E i \in 1 .. Len(resolvers) : resolvers[i].is_cacheable]

MultiBeanResolver(resolvers) ==
    [kind |-> "Multi", resolvers |-> resolvers,
     is_cacheable |-> \A i \in 1 .. Len(resolvers) : resolvers[i].is_cacheable]

RECURSIVE GetAll(_, _, _, _, _, _)
ResolverGet(resolver, regs, inv) ==
    CASE resolver.kind = "Value" ->
            Called(resolver.value, regs, inv)
      [] resolver.kind = "Registration" ->
            CallRegistration(regs, inv, resolver.registration, resolver.container)
      [] resolver.kind = "Multi" ->
            GetAll(resolver.resolvers, 1, regs, inv, <<>>, <<>>)

\* The generator goes on after the get() g of resolver i, or ends with the
\* error that g has raised.
GetNext(resolvers, i, g, acc, puts) ==
    IF g.exc # ""
    THEN Called_init(None, g.registrations, g.invocations, g.exc, puts \o g.puts)
    ELSE GetAll(resolvers, i + 1, g.registrations, g.invocations,
                Append(acc, g.value), puts \o g.puts)

\* BeanList((resolver.get() for resolver in self.resolvers))
GetAll(resolvers, i, regs, inv, acc, puts) ==
    IF i > Len(resolvers)
    THEN Called_init(BeanList(acc), regs, inv, "", puts)
    ELSE GetNext(resolvers, i, ResolverGet(resolvers[i], regs, inv), acc, puts)

\* ----------------------------------------------------------------- messages
ReturnMessage(resolver) == [kind |-> "Return", resolver |-> resolver]
ContinueMessage(state) == [kind |-> "Continue", state |-> state]
NotFoundMessage(state) == [kind |-> "NotFound", state |-> state]
Raise(exc) == [kind |-> "Raise", exc |-> exc]

\* ------------------------------------------------------------------ plugins
applies_to(bean_contract) == bean_contract.origin = "BeanList"

get_plugin_storage(storage, c, p) == storage[c][p]

Accepted(storage) == [kind |-> "Done", accepted |-> TRUE, storage |-> storage]
Declined(storage) == [kind |-> "Done", accepted |-> FALSE, storage |-> storage]

\* ContainerBeanListResolutionPlugin
BeanList_register(storage, key, r, c) ==
    LET registry == get_plugin_storage(storage, c, "BeanList")
    IN  IF ~applies_to(key.bean_contract)
        THEN Declined(storage)
        ELSE LET registration_list ==
                     IF key \in DOMAIN registry THEN registry[key] ELSE <<>>
             IN  Accepted([storage EXCEPT ![c]["BeanList"] =
                              Put(registry, key, Append(registration_list, r))])

\* registry[key] is read before `key in registry` is tested: a level without
\* a registration for the key raises KeyError.
BeanList_reduce(key, local_state, c, ancestor_container) ==
    LET registry == get_plugin_storage(plugin_storage, ancestor_container, "BeanList")
    IN  IF ~applies_to(key.bean_contract)
        THEN NotFoundMessage(local_state)
        ELSE IF key \notin DOMAIN registry
        THEN Raise("KeyError")
        ELSE ContinueMessage(
                local_state \o
                [i \in 1 .. Len(registry[key]) |->
                    RegistrationBeanResolver(registry[key][i], c)])

BeanList_postprocess(key, local_state, c) ==
    IF ~applies_to(key.bean_contract)
    THEN NotFoundMessage(local_state)
    ELSE ReturnMessage(MultiBeanResolver(local_state))

\* mutant: a registration replaces the one the container holds for the key
SingleValue_register_overwrite(storage, key, r, c) ==
    LET registry == get_plugin_storage(storage, c, "SingleValue")
    IN  Accepted([storage EXCEPT ![c]["SingleValue"] = Put(registry, key, r)])

\* ContainerSingleValueResolutionPlugin
SingleValue_register(storage, key, r, c) ==
    LET registry == get_plugin_storage(storage, c, "SingleValue")
    IN  IF key \in DOMAIN registry
        THEN Raise("ContainerAlreadyHasRegistrationError")
        ELSE Accepted([storage EXCEPT ![c]["SingleValue"] = Put(registry, key, r)])

\* mutant: the registry is searched by contract, whatever the name
SingleValue_reduce_by_contract(key, local_state, c, ancestor_container) ==
    LET registry == get_plugin_storage(plugin_storage, ancestor_container, "SingleValue")
        same == {k \in DOMAIN registry : k.bean_contract = key.bean_contract}
    IN  IF same # {}
        THEN ReturnMessage(RegistrationBeanResolver(registry[CHOOSE k \in same : TRUE], c))
        ELSE NotFoundMessage(<<>>)

SingleValue_reduce(key, local_state, c, ancestor_container) ==
    LET registry == get_plugin_storage(plugin_storage, ancestor_container, "SingleValue")
    IN  IF key \in DOMAIN registry
        THEN ReturnMessage(RegistrationBeanResolver(registry[key], c))
        ELSE NotFoundMessage(<<>>)

SingleValue_postprocess(key, local_state, c) == NotFoundMessage(<<>>)

\* ContainerSpecialResolutionPlugin
Special_register(storage, key, r, c) == Declined(storage)

Special_reduce(key, local_state, c, ancestor_container) ==
    IF key.bean_name = NoName /\ key.bean_contract = Injector
    THEN ReturnMessage(ValueBeanResolver(ContainerInjector(c)))
    ELSE NotFoundMessage(<<>>)

Special_postprocess(key, local_state, c) == NotFoundMessage(<<>>)

\* reflection.types.is_any_type: Any, or a Union with an any type in it
is_any_type(type_def) == type_def \in {"Any", "OptionalAny"}

\* reflection.types.can_substitute on Types: anything substitutes an any
\* type, an any type substitutes nothing else, and a class substitutes its
\* base classes.
can_substitute(to_check, type_def) ==
    IF is_any_type(type_def) THEN TRUE
    ELSE IF is_any_type(to_check) THEN FALSE
    ELSE to_check = type_def \/ (to_check = "Derived" /\ type_def = "Base")

\* ContainerConverterResolutionPlugin
is_registration_key_supported(registration_key) ==
    /\ registration_key.bean_name = NoName
    /\ registration_key.bean_contract.origin = "Converter"

is_registration_compatible_with_requested_key(requested_key, registered_key) ==
    /\ can_substitute(generic_TFrom(requested_key.bean_contract),
                      generic_TFrom(registered_key.bean_contract))
    /\ can_substitute(generic_TTo(registered_key.bean_contract),
                      generic_TTo(requested_key.bean_contract))

\* The keys of a registry in insertion order: a registration made later has
\* the larger index.
RECURSIVE RegistryItems(_)
RegistryItems(registry) ==
    IF DOMAIN registry = {} THEN <<>>
    ELSE LET first == CHOOSE k \in DOMAIN registry :
                         \A o \in DOMAIN registry : registry[k] <= registry[o]
         IN  <<first>> \o RegistryItems(Remove(registry, first))

\* The two loops of choose_best_candidate over is_dominated.
RECURSIVE DominatedBy(_, _, _, _)
DominatedBy(candidates, is_dominated, i, j) ==
    IF j > Len(candidates) THEN is_dominated
    ELSE IF i = j \/ is_dominated[j]
    THEN DominatedBy(candidates, is_dominated, i, j + 1)
    ELSE LET arg1 == generic_TFrom(candidates[i].key.bean_contract)
             arg2 == generic_TFrom(candidates[j].key.bean_contract)
             ret1 == generic_TTo(candidates[i].key.bean_contract)
             ret2 == generic_TTo(candidates[j].key.bean_contract)
         IN  DominatedBy(candidates,
                         IF can_substitute(arg1, arg2) /\ can_substitute(ret2, ret1)
                         THEN [is_dominated EXCEPT ![j] = TRUE]
                         ELSE is_dominated,
                         i, j + 1)

RECURSIVE Eliminate(_, _, _)
Eliminate(candidates, is_dominated, i) ==
    IF i > Len(candidates) THEN is_dominated
    ELSE IF is_dominated[i] THEN Eliminate(candidates, is_dominated, i + 1)
    ELSE Eliminate(candidates, DominatedBy(candidates, is_dominated, i, 1), i + 1)

choose_best_candidate(requested_key, candidates) ==
    LET is_dominated == Eliminate(candidates, [i \in 1 .. Len(candidates) |-> FALSE], 1)
        survivors == {i \in 1 .. Len(candidates) : ~is_dominated[i]}
    IN  IF Cardinality(survivors) < 1
        THEN [kind |-> "None"]
        ELSE IF Cardinality(survivors) > 1
        THEN Raise("Exception")
        ELSE [kind |-> "Chosen", candidate |-> candidates[CHOOSE i \in survivors : TRUE]]

\* ContainerAmbiguousResolutionPluginBase
Converter_register(storage, key, r, c) ==
    LET registry == get_plugin_storage(storage, c, "Converter")
    IN  IF key \in DOMAIN registry
        THEN Raise("ContainerAlreadyHasRegistrationError")
        ELSE IF is_registration_key_supported(key)
        THEN Accepted([storage EXCEPT ![c]["Converter"] = Put(registry, key, r)])
        ELSE Declined(storage)

\* The for loop of resolve_bean_reduce over registry.items(), from item i.
RECURSIVE CollectCandidates(_, _, _, _, _, _)
\* mutant: a compatible registration replaces the one collected under the
\* same key
CollectCandidates_replace(key, local_state, c, registry, items, i) ==
    IF i > Len(items) THEN local_state
    ELSE LET k == items[i]
         IN  CollectCandidates(key,
                IF is_registration_compatible_with_requested_key(key, k)
                THEN Append(SelectSeq(local_state, LAMBDA x : x.key # k),
                            [key |-> k, registration |-> registry[k], container |-> c])
                ELSE local_state,
                c, registry, items, i + 1)

CollectCandidates(key, local_state, c, registry, items, i) ==
    IF i > Len(items) THEN local_state
    ELSE LET k == items[i]
             collected == {local_state[n].key : n \in 1 .. Len(local_state)}
         IN  CollectCandidates(key,
                IF k \notin collected /\ is_registration_compatible_with_requested_key(key, k)
                THEN Append(local_state,
                            [key |-> k, registration |-> registry[k], container |-> c])
                ELSE local_state,
                c, registry, items, i + 1)

Converter_reduce(key, local_state, c, ancestor_container) ==
    LET registry == get_plugin_storage(plugin_storage, ancestor_container, "Converter")
    IN  IF ~is_registration_key_supported(key)
        THEN NotFoundMessage(local_state)
        ELSE ContinueMessage(
                CollectCandidates(key, local_state, c, registry, RegistryItems(registry), 1))

Converter_postprocess(key, local_state, c) ==
    IF Len(local_state) = 0
    THEN NotFoundMessage(<<>>)
    ELSE LET tup == choose_best_candidate(key, local_state)
         IN  CASE tup.kind = "Raise" -> tup
               [] tup.kind = "None" -> NotFoundMessage(<<>>)
               [] tup.kind = "Chosen" ->
                    ReturnMessage(RegistrationBeanResolver(tup.candidate.registration,
                                                           tup.candidate.container))

\* ContainerConfigurationResolutionPlugin. Provider values have the declared
\* type of their field and the fields have no validation rule of their own:
\* _transform_value finds no converter and applies Converter.identity(), and
\* validate passes. Providers are registered as instances, so calling a
\* provider registration returns its instance and changes nothing.
configuration_fields(clazz) ==
    IF clazz = StrictConfigurationClass
    THEN <<Configurable("baz"), Configurable("bar"), Configurable("boo")>>
    ELSE <<Configurable("baz"), Configurable("boo")>>
full_path(configurable) == configurable.args[1]
default(configurable) ==
    IF full_path(configurable) = "boo" THEN DefaultValue("boo") ELSE MISSING
is_configuration_class(contract) == contract.origin = "configuration"
get_value(provider, path) ==
    IF path \in ProviderKeys[provider.id] THEN ProvidedValue(path, provider.id) ELSE MISSING
transform_value(value, configurable, c) == value

Configuration_applies_to(key) ==
    /\ key.bean_name = NoName
    /\ key.bean_contract.origin \in {"configuration", "Configurable"}

Configuration_register(storage, key, r, c) ==
    LET registry == get_plugin_storage(storage, c, "Configuration")
        held == IF "ConfigurationProvider" \in DOMAIN registry
                THEN registry["ConfigurationProvider"] ELSE <<>>
    IN  IF key.bean_contract = BeanListConfigurationProvider
        THEN Accepted([storage EXCEPT ![c]["Configuration"] =
                          Put(registry, "ConfigurationProvider", Append(held, r))])
        ELSE Declined(storage)

get_paths_to_collect(clazz) ==
    {full_path(configuration_fields(clazz)[i]) : i \in 1 .. Len(configuration_fields(clazz))}

collect_values_create_initial_state(values_to_collect) ==
    [values_left_to_collect |-> values_to_collect, collected_values |-> EmptyMap]

Configuration_create_initial_state(key, c) ==
    IF ~Configuration_applies_to(key) THEN <<>>
    ELSE IF is_configuration_class(key.bean_contract)
    THEN collect_values_create_initial_state(get_paths_to_collect(key.bean_contract))
    ELSE collect_values_create_initial_state({full_path(key.bean_contract)})

\* mutant: the provider is asked for the keys collected before as well
CollectFrom_ask_again(state, config_provider) ==
    LET to_remove == {p \in state.values_left_to_collect
                              \cup DOMAIN state.collected_values :
                         get_value(config_provider, p) # MISSING}
    IN  [values_left_to_collect |-> state.values_left_to_collect \ to_remove,
         collected_values |->
            [p \in (DOMAIN state.collected_values) \cup to_remove |->
                IF p \in to_remove THEN get_value(config_provider, p)
                ELSE state.collected_values[p]]]

\* One provider of the loop of _collect_values_reduce: every key still to
\* collect that the provider has is stored and struck off.
CollectFrom(state, config_provider) ==
    LET to_remove == {p \in state.values_left_to_collect :
                         get_value(config_provider, p) # MISSING}
    IN  [values_left_to_collect |-> state.values_left_to_collect \ to_remove,
         collected_values |->
            [p \in (DOMAIN state.collected_values) \cup to_remove |->
                IF p \in to_remove THEN get_value(config_provider, p)
                ELSE state.collected_values[p]]]

\* for provider_registration in reversed(registry[ConfigurationProvider]),
\* from the provider at index i down to the first
RECURSIVE CollectReversed(_, _, _)
CollectReversed(state, providers, i) ==
    IF i = 0 THEN state
    ELSE CollectReversed(CollectFrom(state, registrations[providers[i]].instance),
                         providers, i - 1)

collect_values_reduce(state, c, ancestor_container) ==
    LET registry == get_plugin_storage(plugin_storage, ancestor_container, "Configuration")
    IN  IF state.values_left_to_collect = {} THEN state
        ELSE IF "ConfigurationProvider" \notin DOMAIN registry THEN state
        ELSE CollectReversed(state, registry["ConfigurationProvider"],
                             Len(registry["ConfigurationProvider"]))

construct_configuration_class(clazz, local_state, c) ==
    LET fields == configuration_fields(clazz)
        known(f) == \/ full_path(f) \in DOMAIN local_state.collected_values
                    \/ default(f) # MISSING
    IN  IF \E i \in 1 .. Len(fields) : ~known(fields[i])
        THEN Raise("Exception")
        ELSE [kind |-> "Bean",
              bean |-> ConfigurationBean(clazz,
                 [i \in 1 .. Len(fields) |->
                     IF full_path(fields[i]) \in DOMAIN local_state.collected_values
                     THEN transform_value(local_state.collected_values[full_path(fields[i])],
                                          fields[i], c)
                     ELSE default(fields[i])])]

\* return ReturnMessage(ValueBeanResolver(bean)), unless building the bean raised
Configuration_return(made) ==
    IF made.kind = "Raise" THEN made ELSE ReturnMessage(ValueBeanResolver(made.bean))

\* resolve_bean_reduce after _collect_values_reduce has returned state
Configuration_reduce_collected(key, state, c) ==
    IF state.values_left_to_collect # {}
    THEN ContinueMessage(state)
    ELSE IF is_configuration_class(key.bean_contract)
    THEN Configuration_return(construct_configuration_class(key.bean_contract, state, c))
    ELSE ReturnMessage(ValueBeanResolver(
            transform_value(state.collected_values[full_path(key.bean_contract)],
                            key.bean_contract, c)))

Configuration_reduce(key, local_state, c, ancestor_container) ==
    IF ~Configuration_applies_to(key)
    THEN NotFoundMessage(local_state)
    ELSE Configuration_reduce_collected(
            key, collect_values_reduce(local_state, c, ancestor_container), c)

get_paths_of_configurables_with_defaults(clazz) ==
    {full_path(configuration_fields(clazz)[i]) :
        i \in {j \in 1 .. Len(configuration_fields(clazz)) :
                  default(configuration_fields(clazz)[j]) # MISSING}}

MissingConfigurationKeysException(missing_keys) ==
    [kind |-> "Raise", exc |-> "MissingConfigurationKeysException",
     missing_keys |-> missing_keys]

\* mutant: the error names one of the missing keys only
Configuration_postprocess_first_key(key, local_state, c) ==
    IF ~Configuration_applies_to(key)
    THEN NotFoundMessage(<<>>)
    ELSE IF is_configuration_class(key.bean_contract)
    THEN LET missing_values ==
                local_state.values_left_to_collect
                   \ get_paths_of_configurables_with_defaults(key.bean_contract)
             made == construct_configuration_class(key.bean_contract, local_state, c)
         IN  IF missing_values # {}
             THEN MissingConfigurationKeysException({CHOOSE k \in missing_values : TRUE})
             ELSE Configuration_return(made)
    ELSE IF default(key.bean_contract) = MISSING
    THEN MissingConfigurationKeysException(local_state.values_left_to_collect)
    ELSE ReturnMessage(ValueBeanResolver(default(key.bean_contract)))

Configuration_postprocess(key, local_state, c) ==
    IF ~Configuration_applies_to(key)
    THEN NotFoundMessage(<<>>)
    ELSE IF is_configuration_class(key.bean_contract)
    THEN LET missing_values ==
                local_state.values_left_to_collect
                   \ get_paths_of_configurables_with_defaults(key.bean_contract)
             made == construct_configuration_class(key.bean_contract, local_state, c)
         IN  IF missing_values # {}
             THEN MissingConfigurationKeysException(missing_values)
             ELSE Configuration_return(made)
    ELSE IF default(key.bean_contract) = MISSING
    THEN MissingConfigurationKeysException(local_state.values_left_to_collect)
    ELSE ReturnMessage(ValueBeanResolver(default(key.bean_contract)))

\* plugin.registrations(container): pairs of what the plugin yields first
\* and a registration. registry.items() of a registry with one registration
\* to a key:
Items(registry) ==
    [i \in 1 .. Len(RegistryItems(registry)) |->
        <<RegistryItems(registry)[i], registry[RegistryItems(registry)[i]]>>]

\* the pairs of one key of the Bean-List registry
ItemsOfKey(key, registration_list) ==
    [i \in 1 .. Len(registration_list) |-> <<key, registration_list[i]>>]

\* The two loops of ContainerBeanListResolutionPlugin.registrations: the keys
\* in insertion order, that is by their first registration.
RECURSIVE BeanList_items(_)
BeanList_items(registry) ==
    IF DOMAIN registry = {} THEN <<>>
    ELSE LET first == CHOOSE k \in DOMAIN registry :
                         \A o \in DOMAIN registry : registry[k][1] <= registry[o][1]
         IN  ItemsOfKey(first, registry[first]) \o BeanList_items(Remove(registry, first))

BeanList_registrations(c) == BeanList_items(get_plugin_storage(plugin_storage, c, "BeanList"))
SingleValue_registrations(c) == Items(get_plugin_storage(plugin_storage, c, "SingleValue"))
Special_registrations(c) == <<>>
Converter_registrations(c) == Items(get_plugin_storage(plugin_storage, c, "Converter"))

\* ContainerConfigurationResolutionPlugin.registrations yields the contract
\* BeanList[ConfigurationProvider] with every provider registration, not a
\* RegistrationKey.
Configuration_registrations(c) ==
    LET registry == get_plugin_storage(plugin_storage, c, "Configuration")
    IN  IF "ConfigurationProvider" \in DOMAIN registry
        THEN ItemsOfKey(BeanListConfigurationProvider, registry["ConfigurationProvider"])
        ELSE <<>>

plugin_registrations(p, c) ==
    CASE p = "BeanList" -> BeanList_registrations(c)
      [] p = "SingleValue" -> SingleValue_registrations(c)
      [] p = "Special" -> Special_registrations(c)
      [] p = "Converter" -> Converter_registrations(c)
      [] p = "Configuration" -> Configuration_registrations(c)

\* The plugin protocol, dispatched on the plugin.
PluginRegister(p, storage, key, r, c) ==
    CASE p = "BeanList" -> BeanList_register(storage, key, r, c)
      [] p = "SingleValue" -> SingleValue_register(storage, key, r, c)
      [] p = "Special" -> Special_register(storage, key, r, c)
      [] p = "Converter" -> Converter_register(storage, key, r, c)
      [] p = "Configuration" -> Configuration_register(storage, key, r, c)

\* [] for the Bean-List plugin, an empty OrderedDict for the converter plugin,
\* None for the others: the empty tuple is all of them.
resolve_bean_create_initial_state(p, key, c) ==
    IF p = "Configuration" THEN Configuration_create_initial_state(key, c) ELSE <<>>

resolve_bean_reduce(p, key, local_state, c, ancestor_container) ==
    CASE p = "BeanList" -> BeanList_reduce(key, local_state, c, ancestor_container)
      [] p = "SingleValue" -> SingleValue_reduce(key, local_state, c, ancestor_container)
      [] p = "Special" -> Special_reduce(key, local_state, c, ancestor_container)
      [] p = "Converter" -> Converter_reduce(key, local_state, c, ancestor_container)
      [] p = "Configuration" -> Configuration_reduce(key, local_state, c, ancestor_container)

resolve_bean_postprocess(p, key, local_state, c) ==
    CASE p = "BeanList" -> BeanList_postprocess(key, local_state, c)
      [] p = "SingleValue" -> SingleValue_postprocess(key, local_state, c)
      [] p = "Special" -> Special_postprocess(key, local_state, c)
      [] p = "Converter" -> Converter_postprocess(key, local_state, c)
      [] p = "Configuration" -> Configuration_postprocess(key, local_state, c)

\* ---------------------------------------------------------------- container
\* Container._register: the plugins are offered the registration in list
\* order; the first that accepts it ends the loop and purges the cache entry.
RECURSIVE RegisterLoop(_, _, _, _, _)
\* mutant: the plugins after the accepting one are offered the registration
\* as well
RegisterLoop_offer_all(i, storage, key, r, c) ==
    IF i > Len(PluginsOf(c))
    THEN [kind |-> "Done", accepted |-> FALSE, storage |-> storage]
    ELSE LET res == PluginRegister(PluginsOf(c)[i], storage, key, r, c)
         IN  IF res.kind = "Raise" THEN res
             ELSE IF res.accepted
             THEN Accepted(RegisterLoop(i + 1, res.storage, key, r, c).storage)
             ELSE RegisterLoop(i + 1, res.storage, key, r, c)

RegisterLoop(i, storage, key, r, c) ==
    IF i > Len(PluginsOf(c))
    THEN [kind |-> "Done", accepted |-> FALSE, storage |-> storage]
    ELSE LET res == PluginRegister(PluginsOf(c)[i], storage, key, r, c)
         IN  IF res.kind = "Raise" THEN res
             ELSE IF res.accepted THEN res
             ELSE RegisterLoop(i + 1, res.storage, key, r, c)

\* mutant: a registration that leaves the cache entry in place
cache_delete_kept(ch, c, key) == ch

\* mutant: a registration that empties the cache of its container
cache_delete_all(ch, c, key) == [ch EXCEPT ![c] = EmptyMap]

cache_delete(ch, c, key) == [ch EXCEPT ![c] = Remove(ch[c], key)]
\* mutant: the resolver is put into the cache of every container
cache_put_everywhere(ch, c, key, resolver) ==
    [d \in DOMAIN ch |-> Put(ch[d], key, resolver)]
cache_put(ch, c, key, resolver) == [ch EXCEPT ![c] = Put(ch[c], key, resolver)]

\* One call of a plugin operation in a resolution: the operation, the
\* position of the plugin in the list, the ancestor container handed to
\* reduce (0 for the other operations), the state handed in and the answer.
Call(op, i, level, state, res) ==
    [op |-> op, plugin |-> i, level |-> level, state |-> state, res |-> res]

\* The record res with the calls made to obtain it.
WithCalls(res, calls) ==
    [f \in (DOMAIN res) \cup {"calls"} |-> IF f = "calls" THEN calls ELSE res[f]]

\* The inner for loop of try_resolve_bean at one ancestor level, from plugin i.
\* ReduceLevelOn is the body of the loop once plugin i has answered res.
RECURSIVE ReduceLevel(_, _, _, _, _, _)
\* mutant: after Continue the next plugin of the list has its turn at the
\* same level
ReduceLevelOn_next_plugin(c, key, current_container, states, calls, i, res) ==
    LET called == Append(calls, Call("reduce", i, current_container, states[i], res))
    IN  IF res.kind \in {"Return", "Raise"} THEN WithCalls(res, called)
        ELSE ReduceLevel(c, key, current_container,
                         [states EXCEPT ![i] = res.state], called, i + 1)

ReduceLevelOn(c, key, current_container, states, calls, i, res) ==
    LET called == Append(calls, Call("reduce", i, current_container, states[i], res))
    IN  CASE res.kind = "Return" -> WithCalls(res, called)
          [] res.kind = "Raise" -> WithCalls(res, called)
          [] res.kind = "NotFound" ->
               ReduceLevel(c, key, current_container,
                           [states EXCEPT ![i] = res.state], called, i + 1)
          [] res.kind = "Continue" ->
               [kind |-> "LevelDone", states |-> [states EXCEPT ![i] = res.state],
                calls |-> called]

ReduceLevel(c, key, current_container, states, calls, i) ==
    IF i > Len(PluginsOf(c))
    THEN [kind |-> "LevelDone", states |-> states, calls |-> calls]
    ELSE ReduceLevelOn(c, key, current_container, states, calls, i,
            resolve_bean_reduce(PluginsOf(c)[i], key, states[i], c, current_container))

\* The while loop of try_resolve_bean over the ancestor chain. ReduceWalkOn
\* is the end of one round, the plugins having answered level.
RECURSIVE ReduceWalk(_, _, _, _, _)
\* mutant: the walk ends with the level of the requesting container
ReduceWalkOn_own_level(c, key, current_container, level) ==
    IF level.kind = "LevelDone"
    THEN [kind |-> "Exhausted", states |-> level.states, calls |-> level.calls]
    ELSE level

ReduceWalkOn(c, key, current_container, level) ==
    IF level.kind = "LevelDone"
    THEN ReduceWalk(c, key, parent[current_container], level.states, level.calls)
    ELSE level

ReduceWalk(c, key, current_container, states, calls) ==
    IF current_container = 0
    THEN [kind |-> "Exhausted", states |-> states, calls |-> calls]
    ELSE ReduceWalkOn(c, key, current_container,
                      ReduceLevel(c, key, current_container, states, calls, 1))

\* The postprocess loop of try_resolve_bean, from plugin i. PostprocessOn is
\* the body of the loop once plugin i has answered res.
RECURSIVE PostprocessLoop(_, _, _, _, _)
\* mutant: after NotFound the plugin after the next one has its turn
PostprocessOn_skip(c, key, states, calls, i, res) ==
    LET called == Append(calls, Call("postprocess", i, 0, states[i], res))
    IN  IF res.kind \in {"Return", "Raise"} THEN WithCalls(res, called)
        ELSE PostprocessLoop(c, key, states, called, i + 2)

PostprocessOn(c, key, states, calls, i, res) ==
    LET called == Append(calls, Call("postprocess", i, 0, states[i], res))
    IN  IF res.kind \in {"Return", "Raise"} THEN WithCalls(res, called)
        ELSE PostprocessLoop(c, key, states, called, i + 1)

\* mutant: the postprocess loop is run a second time when no plugin has
\* returned
PostprocessLoop_again(c, key, states, calls, i) ==
    IF i > Len(PluginsOf(c))
    THEN IF Cardinality({m \in 1 .. Len(calls) : calls[m].op = "postprocess"})
               > Len(PluginsOf(c))
         THEN WithCalls(NotFoundMessage(<<>>), calls)
         ELSE PostprocessLoop(c, key, states, calls, 1)
    ELSE PostprocessOn(c, key, states, calls, i,
                       resolve_bean_postprocess(PluginsOf(c)[i], key, states[i], c))

PostprocessLoop(c, key, states, calls, i) ==
    IF i > Len(PluginsOf(c))
    THEN WithCalls(NotFoundMessage(<<>>), calls)
    ELSE PostprocessOn(c, key, states, calls, i,
                       resolve_bean_postprocess(PluginsOf(c)[i], key, states[i], c))

\* plugin.resolve_bean_create_initial_state for every plugin of the list
InitialStates(c, key) ==
    [i \in 1 .. Len(PluginsOf(c)) |->
        resolve_bean_create_initial_state(PluginsOf(c)[i], key, c)]
InitialCalls(c, key) ==
    [i \in 1 .. Len(PluginsOf(c)) |->
        Call("create_initial_state", i, 0, <<>>,
             [kind |-> "State",
              state |-> resolve_bean_create_initial_state(PluginsOf(c)[i], key, c)])]

\* What follows the while loop: the postprocess loop, unless a plugin has
\* returned or raised during the walk.
AfterWalk(c, key, walk) ==
    IF walk.kind = "Exhausted"
    THEN PostprocessLoop(c, key, walk.states, walk.calls, 1)
    ELSE walk

\* mutant: the walk starts at the newest container, not at the requesting one
ResolveUncached_from_newest(c, key) ==
    AfterWalk(c, key, ReduceWalk(c, key, Len(parent),
                                 InitialStates(c, key), InitialCalls(c, key)))

\* The plugin protocol of an uncached resolution: Return, Raise or NotFound,
\* with the calls made.
ResolveUncached(c, key) ==
    AfterWalk(c, key, ReduceWalk(c, key, c, InitialStates(c, key), InitialCalls(c, key)))

Returned(value, ch, regs, inv) ==
    [kind |-> "Return", value |-> value, exc |-> "",
     cache |-> ch, registrations |-> regs, invocations |-> inv]
Raised(exc) ==
    [kind |-> "Raise", value |-> None, exc |-> exc,
     cache |-> cache, registrations |-> registrations, invocations |-> invocations]

\* The cache after the resolutions made by inject have put their resolvers.
RECURSIVE CachePuts(_, _, _)
CachePuts(ch, puts, i) ==
    IF i > Len(puts)
    THEN ch
    ELSE CachePuts([ch EXCEPT ![puts[i].container] =
                       Put(ch[puts[i].container], puts[i].key, puts[i].resolver)],
                   puts, i + 1)

\* return resolver.get(), g being what the call of get has returned or raised
\* and done; an error of get() goes to the caller with the state as get()
\* has left it.
ReturnGot(g, ch) ==
    IF g.exc # ""
    THEN [kind |-> "Raise", value |-> None, exc |-> g.exc,
          cache |-> CachePuts(ch, g.puts, 1),
          registrations |-> g.registrations, invocations |-> g.invocations]
    ELSE Returned(g.value, CachePuts(ch, g.puts, 1), g.registrations, g.invocations)

\* mutant: the resolver of a Return is never put into the cache
Answer_not_cached(c, key, res) ==
    WithCalls(
       CASE res.kind = "Return" ->
              ReturnGot(ResolverGet(res.resolver, registrations, invocations), cache)
         [] res.kind = "Raise" -> Raised(res.exc)
         [] res.kind = "NotFound" ->
              Returned(BEAN_NOT_FOUND, cache, registrations, invocations),
       res.calls)

\* What try_resolve_bean does with the answer res of the plugins: a
\* cacheable resolver is put into the cache and its bean returned; with no
\* answer BEAN_NOT_FOUND is returned.
Answer(c, key, res) ==
    WithCalls(
       CASE res.kind = "Return" ->
              ReturnGot(ResolverGet(res.resolver, registrations, invocations),
                        IF res.resolver.is_cacheable
                        THEN cache_put(cache, c, key, res.resolver)
                        ELSE cache)
         [] res.kind = "Raise" -> Raised(res.exc)
         [] res.kind = "NotFound" ->
              Returned(BEAN_NOT_FOUND, cache, registrations, invocations),
       res.calls)

\* mutant: the cache is not consulted
try_resolve_key_uncached(c, key) == Answer(c, key, ResolveUncached(c, key))

\* try_resolve_bean from the cache lookup on
try_resolve_key(c, key) ==
    IF key \in DOMAIN cache[c]
    THEN WithCalls(ReturnGot(ResolverGet(cache[c][key], registrations, invocations), cache),
                   <<>>)
    ELSE Answer(c, key, ResolveUncached(c, key))

\* mutant: no short-circuit for the unnamed Container contract
try_resolve_bean_by_plugins(c, contract, bean_name) ==
    try_resolve_key(c, RegistrationKey(contract, bean_name))

\* Container.try_resolve_bean: what it returns or raises, the state it
\* leaves and the plugin calls it has made.
try_resolve_bean(c, contract, bean_name) ==
    IF bean_name = NoName /\ contract = ContainerContract
    THEN WithCalls(Returned(ContainerValue(c), cache, registrations, invocations), <<>>)
    ELSE try_resolve_key(c, RegistrationKey(contract, bean_name))

\* Container.resolve_bean, bean being what try_resolve_bean has answered
resolve_bean_checked(bean) ==
    IF bean.kind = "Return" /\ bean.value = BEAN_NOT_FOUND
    THEN [bean EXCEPT !.kind = "Raise", !.value = None, !.exc = "ResolutionFailedError"]
    ELSE bean

\* Container.resolve_bean (declared above, for inject)
resolve_bean(c, contract, bean_name) ==
    resolve_bean_checked(try_resolve_bean(c, contract, bean_name))

\* ------------------------------------------------------------------ actions
Result(op, c, key, res) ==
    [op |-> op, container |-> c, key |-> key,
     kind |-> res.kind, value |-> res.value, exc |-> res.exc]

Init ==
    /\ parent = <<0>>
    /\ plugins = <<DefaultPlugins>>
    /\ plugin_storage = <<[p \in PluginNames |-> EmptyMap]>>
    /\ cache = <<EmptyMap>>
    /\ registrations = <<>>
    /\ invocations = <<>>
    /\ result = [op |-> "Container", container |-> 1, key |-> RegistrationKey(IBean, NoName),
                 kind |-> "Return", value |-> None, exc |-> ""]

\* Container(parent=p)
CreateChild(p) ==
    /\ Len(parent) < MaxContainers
    /\ parent' = Append(parent, p)
    /\ plugin_storage' = Append(plugin_storage, [q \in PluginNames |-> EmptyMap])
    /\ cache' = Append(cache, EmptyMap)
    /\ plugins' = Append(plugins, <<>>)
    /\ result' = [op |-> "Container", container |-> Len(parent) + 1,
                  key |-> RegistrationKey(IBean, NoName),
                  kind |-> "Return", value |-> None, exc |-> ""]
    /\ UNCHANGED <<registrations, invocations>>

\* mutant: the plugin goes into the list of the container it was added on
add_plugin_own(lists, c, plugin) == [lists EXCEPT ![c] = <<plugin>> \o lists[c]]

\* Container.add_plugin: handed up to the root, which inserts it at index 0.
RECURSIVE add_plugin(_, _, _)
add_plugin(lists, c, plugin) ==
    IF parent[c] # 0
    THEN add_plugin(lists, parent[c], plugin)
    ELSE [lists EXCEPT ![c] = <<plugin>> \o lists[c]]

AddPlugin(c, plugin) ==
    /\ Len(PluginsOf(c)) < MaxPlugins
    /\ plugins' = add_plugin(plugins, c, plugin)
    /\ result' = [op |-> "add_plugin", container |-> c,
                  key |-> RegistrationKey(Plain(plugin), NoName),
                  kind |-> "Return", value |-> ContainerValue(c), exc |-> ""]
    /\ UNCHANGED <<parent, plugin_storage, cache, registrations, invocations>>

\* mutant: the cache entry is purged although a plugin has raised
Register_purge_first(op, c, key, registration) ==
    /\ LET r == Len(registrations) + 1
           res == RegisterLoop(1, plugin_storage, key, r, c)
       IN  IF res.kind = "Raise"
           THEN /\ result' = [op |-> op, container |-> c, key |-> key,
                              kind |-> "Raise", value |-> None, exc |-> res.exc]
                /\ cache' = cache_delete(cache, c, key)
                /\ UNCHANGED <<plugin_storage, registrations>>
           ELSE /\ result' = [op |-> op, container |-> c, key |-> key,
                              kind |-> "Return", value |-> None, exc |-> ""]
                /\ plugin_storage' = res.storage
                /\ cache' = IF res.accepted THEN cache_delete(cache, c, key) ELSE cache
                /\ registrations' = IF res.accepted
                                    THEN Append(registrations, registration)
                                    ELSE registrations
    /\ Len(registrations') <= MaxRegistrations
    /\ UNCHANGED <<parent, plugins, invocations>>

\* Container._register of a freshly built registration object
Register(op, c, key, registration) ==
    /\ LET r == Len(registrations) + 1
           res == RegisterLoop(1, plugin_storage, key, r, c)
       IN  IF res.kind = "Raise"
           THEN /\ result' = [op |-> op, container |-> c, key |-> key,
                              kind |-> "Raise", value |-> None, exc |-> res.exc]
                /\ UNCHANGED <<plugin_storage, cache, registrations>>
           ELSE /\ result' = [op |-> op, container |-> c, key |-> key,
                              kind |-> "Return", value |-> None, exc |-> ""]
                /\ plugin_storage' = res.storage
                /\ cache' = IF res.accepted THEN cache_delete(cache, c, key) ELSE cache
                /\ registrations' = IF res.accepted
                                    THEN Append(registrations, registration)
                                    ELSE registrations
    /\ Len(registrations') <= MaxRegistrations
    /\ UNCHANGED <<parent, plugins, invocations>>

\* Container._register_instance
RegisterInstance(c, contract, bean_name, instance) ==
    LET key == RegistrationKey(contract, bean_name)
    IN  Register("register_instance", c, key,
                 InstanceContainerRegistration(c, key, InstanceValue(instance)))

\* Container._register_factory (and _register_type, which delegates to it)
RegisterFactory(c, contract, bean_name, registration_type) ==
    LET key == RegistrationKey(contract, bean_name)
    IN  Register("register_factory", c, key,
                 FactoryContainerRegistration(c, key, registration_type))

\* Container._register_factory with the factory given
register_factory(c, contract, bean_name, registration_type, factory) ==
    LET key == RegistrationKey(contract, bean_name)
    IN  Register("register_factory", c, key,
                 FactoryContainerRegistration_init(c, key, registration_type, factory))

\* register_instance[BeanList[ConfigurationProvider]](provider)
RegisterProvider(c, provider) ==
    LET key == RegistrationKey(BeanListConfigurationProvider, NoName)
    IN  Register("register_instance", c, key,
                 InstanceContainerRegistration(c, key, ProviderValue(provider)))

\* register_instance of an object that no earlier call has registered
RegisterNewInstance(c, contract, bean_name) ==
    RegisterInstance(c, contract, bean_name, Len(registrations) + 1)

Resolution(op, c, contract, bean_name, res) ==
    /\ Len(res.invocations) <= MaxInvocations
    /\ result' = Result(op, c, RegistrationKey(contract, bean_name), res)
    /\ cache' = res.cache
    /\ registrations' = res.registrations
    /\ invocations' = res.invocations
    /\ UNCHANGED <<parent, plugins, plugin_storage>>

TryResolve(c, contract, bean_name) ==
    Resolution("try_resolve_bean", c, contract, bean_name,
               try_resolve_bean(c, contract, bean_name))

Resolve(c, contract, bean_name) ==
    Resolution("resolve_bean", c, contract, bean_name,
               resolve_bean(c, contract, bean_name))

\* Shadowing: one Single-Value key, a new instance registered each time.
NextShadow ==
    \/ \E p \in Containers : CreateChild(p)
    \/ \E c \in Containers : RegisterNewInstance(c, IBean, NoName)
    \/ \E c \in Containers : TryResolve(c, IBean, NoName)

SpecShadow == Init /\ [][NextShadow]_vars

\* Lifecycles: one Single-Value key, factories of every registration type.
NextLifecycle ==
    \/ \E p \in Containers : Len(parent) < MaxScopes /\ CreateChild(p)
    \/ \E c \in Containers, f \in FactoryTypes : RegisterFactory(c, IBean, NoName, f)
    \/ \E c \in Containers : TryResolve(c, IBean, NoName)

SpecLifecycle == Init /\ [][NextLifecycle]_vars

\* Producers: factories that make a bean, raise, or take an injected
\* dependency, under one Single-Value key; the dependency is an instance
\* under a second key.
NextProducer ==
    \/ \E p \in Containers : Len(parent) < MaxScopes /\ CreateChild(p)
    \/ \E c \in Containers, t \in FactoryTypes, f \in Factories :
           register_factory(c, IBean, NoName, t, f)
    \/ \E c \in Containers :
           RegisterNewInstance(c, Dependency.bean_contract, Dependency.bean_name)
    \/ \E c \in Containers : TryResolve(c, IBean, NoName)

SpecProducer == Init /\ [][NextProducer]_vars

\* Bean lists: one Bean-List key, instances and transient factories.
NextBeanList ==
    \/ \E p \in Containers : Len(parent) < MaxScopes /\ CreateChild(p)
    \/ \E c \in Containers, i \in Instances : RegisterInstance(c, BeanListIBean, NoName, i)
    \/ \E c \in Containers : RegisterFactory(c, BeanListIBean, NoName, "Transient")
    \/ \E c \in Containers : TryResolve(c, BeanListIBean, NoName)

SpecBeanList == Init /\ [][NextBeanList]_vars

\* Names: one contract under every name in a single container, each
\* registration a new object.
NextNames ==
    \/ \E c \in Containers, n \in Names :
          RegisterNewInstance(c, IBean, n) /\ Len(registrations') <= MaxNamed
    \/ \E c \in Containers, n \in Names : TryResolve(c, IBean, n)

SpecNames == Init /\ [][NextNames]_vars

\* Converters: the converter plugin is added first, then converters are
\* registered and requested along the hierarchy.
NextConverter ==
    \/ \E p \in Containers : Len(parent) < MaxScopes /\ CreateChild(p)
    \/ \E c \in Containers :
          /\ "Converter" \notin {PluginsOf(c)[i] : i \in 1 .. Len(PluginsOf(c))}
          /\ AddPlugin(c, "Converter")
    \/ \E c \in Containers, t \in RegisteredConverters :
          /\ PluginsOf(c)[1] = "Converter"
          /\ RegisterNewInstance(c, t, NoName)
          /\ Len(registrations') <= MaxConverters
    \/ \E c \in Containers, t \in RequestedConverters :
          /\ PluginsOf(c)[1] = "Converter"
          /\ TryResolve(c, t, NoName)

SpecConverter == Init /\ [][NextConverter]_vars

\* Converters from any type: the converter plugin is added first, then
\* converters whose input types accept any type are registered and a
\* converter from Derived is requested.
NextDomination ==
    \/ \E p \in Containers : Len(parent) < MaxScopes /\ CreateChild(p)
    \/ \E c \in Containers :
          /\ "Converter" \notin {PluginsOf(c)[i] : i \in 1 .. Len(PluginsOf(c))}
          /\ AddPlugin(c, "Converter")
    \/ \E c \in Containers, t \in AnyConverters :
          /\ PluginsOf(c)[1] = "Converter"
          /\ RegisterNewInstance(c, t, NoName)
          /\ Len(registrations') <= MaxConverters
    \/ \E c \in Containers :
          /\ PluginsOf(c)[1] = "Converter"
          /\ TryResolve(c, Converter("Derived", "Derived"), NoName)

SpecDomination == Init /\ [][NextDomination]_vars

\* Configuration: the configuration plugin is added first, then providers are
\* registered and the configuration class and its fields are requested.
NextConfiguration ==
    \/ \E p \in Containers : Len(parent) < MaxScopes /\ CreateChild(p)
    \/ \E c \in Containers :
          /\ "Configuration" \notin {PluginsOf(c)[i] : i \in 1 .. Len(PluginsOf(c))}
          /\ AddPlugin(c, "Configuration")
    \/ \E c \in Containers, n \in Providers :
          /\ PluginsOf(c)[1] = "Configuration"
          /\ RegisterProvider(c, n)
          /\ Len(registrations') <= MaxProviders
    \/ \E c \in Containers, t \in ConfigurationContracts :
          /\ PluginsOf(c)[1] = "Configuration"
          /\ TryResolve(c, t, NoName)

SpecConfiguration == Init /\ [][NextConfiguration]_vars

\* Missing keys: a class with two fields without a default, and providers
\* that hold one of their keys each.
NextMissing ==
    \/ \E p \in Containers : Len(parent) < MaxScopes /\ CreateChild(p)
    \/ \E c \in Containers :
          /\ "Configuration" \notin {PluginsOf(c)[i] : i \in 1 .. Len(PluginsOf(c))}
          /\ AddPlugin(c, "Configuration")
    \/ \E c \in Containers, n \in StrictProviders :
          /\ PluginsOf(c)[1] = "Configuration"
          /\ RegisterProvider(c, n)
          /\ Len(registrations') <= MaxProviders
    \/ \E c \in Containers, t \in StrictContracts :
          /\ PluginsOf(c)[1] = "Configuration"
          /\ TryResolve(c, t, NoName)

SpecMissing == Init /\ [][NextMissing]_vars

\* Plugins: either plugin added any number of times, from any container of
\* a hierarchy, before and after a registration.
NextPlugins ==
    \/ \E p \in Containers : CreateChild(p)
    \/ \E c \in Containers, plugin \in AddedPlugins : AddPlugin(c, plugin)
    \/ \E c \in Containers :
          RegisterNewInstance(c, IBean, NoName) /\ Len(registrations') <= MaxBeans

SpecPlugins == Init /\ [][NextPlugins]_vars

\* Frame of a registration: two keys, registered and resolved anywhere in a
\* chain.
NextFrame ==
    \/ \E p \in Containers : Len(parent) < MaxScopes /\ CreateChild(p)
    \/ \E c \in Containers, k \in FrameKeys :
          RegisterNewInstance(c, k.bean_contract, k.bean_name)
    \/ \E c \in Containers, k \in FrameKeys : TryResolve(c, k.bean_contract, k.bean_name)

SpecFrame == Init /\ [][NextFrame]_vars

\* Plugin protocol: keys of every plugin resolved in a chain, the
\* configuration plugin being added first or not at all.
NextProtocol ==
    \/ \E p \in Containers : Len(parent) < MaxScopes /\ CreateChild(p)
    \/ \E c \in Containers :
          /\ PluginsOf(c) = DefaultPlugins
          /\ registrations = <<>>
          /\ AddPlugin(c, "Configuration")
    \/ \E c \in Containers, n \in Providers :
          RegisterProvider(c, n) /\ Len(registrations') <= MaxBeans
    \/ \E c \in Containers, t \in {IBean, BeanListIBean} :
          RegisterNewInstance(c, t, NoName) /\ Len(registrations') <= MaxBeans
    \/ \E c \in Containers, t \in ProtocolContracts : TryResolve(c, t, NoName)

SpecProtocol == Init /\ [][NextProtocol]_vars

\* Every contract shape, resolved by both entry points.
Next ==
    \/ \E p \in Containers : Len(parent) < MaxScopes /\ CreateChild(p)
    \/ \E c \in Containers, k \in ShapeKeys :
          RegisterNewInstance(c, k.bean_contract, k.bean_name)
             /\ Len(registrations') <= MaxBeans
    \/ \E c \in Containers, k \in ShapeKeys : TryResolve(c, k.bean_contract, k.bean_name)
    \/ \E c \in Containers, k \in ShapeKeys : Resolve(c, k.bean_contract, k.bean_name)

Spec == Init /\ [][Next]_vars

\* ------------------------------------------------------ vocabulary of claims
\* The chain of c: c, its parent, and so on up to the root.
RECURSIVE Chain(_)
Chain(c) == IF c = 0 THEN <<>> ELSE <<c>> \o Chain(parent[c])

Ancestors(c) == {Chain(c)[i] : i \in 2 .. Len(Chain(c))}

SingleValueRegistry(c) == plugin_storage[c]["SingleValue"]
BeanListRegistry(c) == plugin_storage[c]["BeanList"]

\* The nearest container of c's chain that holds a Single-Value registration
\* for key, 0 when there is none.
RECURSIVE NearestFrom(_, _)
NearestFrom(c, key) ==
    IF c = 0 THEN 0
    ELSE IF key \in DOMAIN SingleValueRegistry(c) THEN c
    ELSE NearestFrom(parent[c], key)

\* v is a value that calling registration r yields.
ValueOf(v, r) ==
    IF registrations[r].type = "Instance"
    THEN v = registrations[r].instance
    ELSE /\ v.src = "factory"
         /\ v.id \in DOMAIN invocations
         /\ invocations[v.id] = r

\* The last operation was a resolution, by either entry point.
Resolved == result.op \in {"try_resolve_bean", "resolve_bean"}

\* A key that only the Single-Value plugin resolves.
SingleValueKey(key) ==
    /\ ~applies_to(key.bean_contract)
    /\ ~(key.bean_name = NoName /\ key.bean_contract \in {ContainerContract, Injector})

\* ------------------------------------------------------------------- claims
\* C1: a Single-Value key registered on the requesting container and also on
\* one of its ancestors or descendants resolves, from that container, to the
\* value of the container's own registration (nearest wins), whatever the
\* order of the registrations and of earlier resolutions.
C1_NearestWins ==
    (/\ Resolved
     /\ SingleValueKey(result.key)
     /\ result.key \in DOMAIN SingleValueRegistry(result.container)
     /\ \E o \in Containers \ {result.container} :
           /\ result.key \in DOMAIN SingleValueRegistry(o)
           /\ (o \in Ancestors(result.container) \/ result.container \in Ancestors(o)))
    => /\ result.kind = "Return"
       /\ ValueOf(result.value, SingleValueRegistry(result.container)[result.key])

\* C1 witness: a descendant that registered the key after its ancestor did has
\* just resolved it and got its own, different, instance.
C1_Witness ==
    /\ Resolved
    /\ result.key \in DOMAIN SingleValueRegistry(result.container)
    /\ \E a \in Ancestors(result.container) :
          /\ result.key \in DOMAIN SingleValueRegistry(a)
          /\ SingleValueRegistry(a)[result.key]
                < SingleValueRegistry(result.container)[result.key]
          /\ registrations[SingleValueRegistry(a)[result.key]].instance
                # registrations[SingleValueRegistry(result.container)[result.key]].instance
    /\ result.value
          = registrations[SingleValueRegistry(result.container)[result.key]].instance

\* C3: resolving a Single-Value key from container C returns the value of the
\* registration of the nearest container of C's chain that has the key.
C3_NearestRegistration ==
    (/\ Resolved
     /\ SingleValueKey(result.key)
     /\ NearestFrom(result.container, result.key) # 0)
    => /\ result.kind = "Return"
       /\ ValueOf(result.value,
                  SingleValueRegistry(NearestFrom(result.container, result.key))[result.key])

\* Key is registered on container c, with whichever plugin stored it.
RegisteredOn(c, key) ==
    \/ key \in DOMAIN SingleValueRegistry(c)
    \/ key \in DOMAIN BeanListRegistry(c)

Succeeded == result.kind = "Return" /\ result.value # BEAN_NOT_FOUND
Failed ==
    \/ result.kind = "Return" /\ result.value = BEAN_NOT_FOUND
    \/ result.kind = "Raise" /\ result.exc = "ResolutionFailedError"

\* Key is registered on d and on none of d's ancestors: then a resolution of
\* it from d succeeds and one from an ancestor of d fails.
DirectionalFor(key) ==
    \A d \in Containers :
        (/\ RegisteredOn(d, key)
         /\ \A a \in Ancestors(d) : ~RegisteredOn(a, key))
        => /\ (Resolved /\ result.key = key /\ result.container = d) => Succeeded
           /\ (Resolved /\ result.key = key /\ result.container \in Ancestors(d)) => Failed

\* C2 as stated: for every key registered only on a descendant, resolving it
\* from the descendant succeeds and resolving it from an ancestor fails.
C2_Original == \A key \in Keys : DirectionalFor(key)

\* C2 as amended: the same for every key that only the Single-Value plugin
\* resolves (not a Bean-List contract, not the unnamed Container or Injector
\* contract).
C2_Directional == \A key \in Keys : SingleValueKey(key) => DirectionalFor(key)

\* C2 witness: the parent of a container that holds the key has just failed to
\* resolve it.
C2_Witness ==
    /\ Resolved
    /\ Failed
    /\ SingleValueKey(result.key)
    /\ \E d \in Containers :
          /\ result.container \in Ancestors(d)
          /\ result.key \in DOMAIN SingleValueRegistry(d)

\* C8: a register call for a key that its container's Single-Value registry
\* already holds raises ContainerAlreadyHasRegistrationError and stores
\* nothing; for a key the container does not hold it is accepted and stored,
\* whatever the other containers of the hierarchy hold.
C8_Step ==
    (/\ result'.op \in {"register_instance", "register_factory"}
     /\ ~applies_to(result'.key.bean_contract))
    => IF result'.key \in DOMAIN SingleValueRegistry(result'.container)
       THEN /\ result'.kind = "Raise"
            /\ result'.exc = "ContainerAlreadyHasRegistrationError"
            /\ UNCHANGED <<plugin_storage, registrations>>
       ELSE /\ result'.kind = "Return"
            /\ registrations' # registrations
            /\ result'.key \in DOMAIN plugin_storage'[result'.container]["SingleValue"]
            /\ plugin_storage'[result'.container]["SingleValue"][result'.key]
                  = Len(registrations')
            /\ registrations'[Len(registrations')].container = result'.container

C8_DuplicateRegistration == [][C8_Step]_vars

\* C8 witness: with the key registered on parent and child, a second register
\* call for it on one of them has just raised.
C8_Witness ==
    /\ result.op = "register_instance"
    /\ result.kind = "Raise"
    /\ result.exc = "ContainerAlreadyHasRegistrationError"
    /\ \E o \in Containers \ {result.container} :
          result.key \in DOMAIN SingleValueRegistry(o)

\* The registrations held under exactly this key on the chain of c.
ChainRegistrations(c, key) ==
    {SingleValueRegistry(Chain(c)[i])[key] :
        i \in {j \in 1 .. Len(Chain(c)) : key \in DOMAIN SingleValueRegistry(Chain(c)[j])}}

\* C9: a resolution of (T, n) returns a bean registered under exactly (T, n)
\* on the chain of the requesting container, and is not found when the chain
\* holds T only under other names.
C9_ExactKey ==
    (Resolved /\ SingleValueKey(result.key))
    => /\ result.kind = "Return"
       /\ IF ChainRegistrations(result.container, result.key) = {}
          THEN result.value = BEAN_NOT_FOUND
          ELSE \E r \in ChainRegistrations(result.container, result.key) :
                  /\ registrations[r].key = result.key
                  /\ ValueOf(result.value, r)

\* C9 witness: a named request has just been answered with the bean of that
\* name while the chain also holds the contract unnamed and under another name;
\* or has just failed while the chain holds the contract under other names only.
C9_Witness ==
    /\ Resolved
    /\ result.key.bean_name = "x"
    /\ ChainRegistrations(result.container, result.key) = {}
    /\ result.value = BEAN_NOT_FOUND
    /\ ChainRegistrations(result.container, RegistrationKey(IBean, NoName)) # {}
    /\ ChainRegistrations(result.container, RegistrationKey(IBean, "y")) # {}

\* The factory calls that registration r has made.
InvocationsOf(r) == {n \in DOMAIN invocations : invocations[n] = r}

\* C4: a ScopedSingleton registration has called its producer at most once;
\* once it has, it keeps that call's bean, and every resolution it serves, from
\* the owning container or a descendant, returns that bean.
C4_ScopedSingleton ==
    /\ \A r \in DOMAIN registrations :
          registrations[r].type = "Container"
          => /\ Cardinality(InvocationsOf(r)) <= 1
             /\ registrations[r].registered <=> InvocationsOf(r) # {}
             /\ registrations[r].registered
                   => InvocationsOf(r) = {registrations[r].value.id}
    /\ (/\ Resolved
        /\ ChainRegistrations(result.container, result.key) # {}
        /\ \A r \in ChainRegistrations(result.container, result.key) :
              registrations[r].type = "Container")
       => /\ result.kind = "Return"
          /\ \E r \in ChainRegistrations(result.container, result.key) :
                /\ registrations[r].registered
                /\ result.value = registrations[r].value
                /\ result.value = FactoryValue(registrations[r].value.id)

\* C4 witness: a descendant has just resolved the singleton of an ancestor that
\* the ancestor itself had resolved before, and got the bean of the single call.
C4_Witness ==
    /\ Resolved
    /\ \E r \in DOMAIN registrations :
          /\ registrations[r].type = "Container"
          /\ registrations[r].container \in Ancestors(result.container)
          /\ result.key \in DOMAIN cache[registrations[r].container]
          /\ result.key \in DOMAIN cache[result.container]
          /\ result.value = registrations[r].value
          /\ Cardinality(InvocationsOf(r)) = 1

\* C5: a resolution of a key that the chain binds to Transient registrations
\* only calls a producer exactly once and returns the bean that call made, a
\* bean no earlier call returned.
C5_Step ==
    (/\ result'.op \in {"try_resolve_bean", "resolve_bean"}
     /\ ChainRegistrations(result'.container, result'.key) # {}
     /\ \A r \in ChainRegistrations(result'.container, result'.key) :
           registrations[r].type = "Transient")
    => /\ Len(invocations') = Len(invocations) + 1
       /\ invocations'[Len(invocations')]
             \in ChainRegistrations(result'.container, result'.key)
       /\ result'.kind = "Return"
       /\ result'.value = FactoryValue(Len(invocations'))

C5_Transient == [][C5_Step]_vars

\* C5 witness: the only container has resolved a transient key twice, the
\* second time through its resolver cache, and got the second call's bean.
C5_Witness ==
    /\ Resolved
    /\ Len(parent) = 1
    /\ Len(invocations) = 2
    /\ invocations[1] = invocations[2]
    /\ registrations[invocations[2]].type = "Transient"
    /\ result.key \in DOMAIN cache[result.container]
    /\ result.value = FactoryValue(2)

\* C6: a Hierarchical registration has called its producer once for each
\* container that requested it and keeps each call's bean under that
\* container: a resolution it serves returns the requesting container's bean,
\* and two containers never share one.
C6_Hierarchical ==
    /\ \A r \in DOMAIN registrations :
          registrations[r].type = "Hierarchical"
          => /\ InvocationsOf(r)
                   = {registrations[r].values[c].id : c \in DOMAIN registrations[r].values}
             /\ Cardinality(InvocationsOf(r)) = Cardinality(DOMAIN registrations[r].values)
             /\ \A c \in DOMAIN registrations[r].values :
                   registrations[r].values[c].src = "factory"
    /\ (/\ Resolved
        /\ ChainRegistrations(result.container, result.key) # {}
        /\ \A r \in ChainRegistrations(result.container, result.key) :
              registrations[r].type = "Hierarchical")
       => /\ result.kind = "Return"
          /\ \E r \in ChainRegistrations(result.container, result.key) :
                /\ result.container \in DOMAIN registrations[r].values
                /\ result.value = registrations[r].values[result.container]

\* C6 witness: the owning container and a descendant have both resolved the
\* registration, the later one twice, and hold two different beans.
C6_Witness ==
    /\ Resolved
    /\ \E r \in DOMAIN registrations :
          /\ registrations[r].type = "Hierarchical"
          /\ registrations[r].container \in DOMAIN registrations[r].values
          /\ result.container \in DOMAIN registrations[r].values
          /\ result.container # registrations[r].container
          /\ result.value = registrations[r].values[result.container]
          /\ result.value # registrations[r].values[registrations[r].container]
          /\ Cardinality(InvocationsOf(r)) = 2

NotFound(res) == res.kind = "Return" /\ res.value = BEAN_NOT_FOUND
ResolutionFailed(res) == res.kind = "Raise" /\ res.exc = "ResolutionFailedError"

\* C7: in every state, for every container and key, try_resolve_bean returns
\* BEAN_NOT_FOUND exactly when resolve_bean raises ResolutionFailedError; in
\* every other case both return a value, the same one, and leave the same
\* state; try_resolve_bean never raises ResolutionFailedError and resolve_bean
\* never returns the sentinel.
C7_TryAgreesWithResolve ==
    /\ \A c \in Containers, k \in ShapeKeys :
          LET best_effort == try_resolve_bean(c, k.bean_contract, k.bean_name)
              must == resolve_bean(c, k.bean_contract, k.bean_name)
          IN  /\ ~ResolutionFailed(best_effort)
              /\ ~NotFound(must)
              /\ NotFound(best_effort) <=> ResolutionFailed(must)
              /\ ~NotFound(best_effort)
                    => (best_effort.kind = "Return" /\ must = best_effort)
    /\ result.op = "try_resolve_bean" => ~ResolutionFailed(result)
    /\ result.op = "resolve_bean" => ~NotFound(result)

\* What the two entry points do agree on: the sentinel of one is the
\* ResolutionFailedError of the other, and anything else, the error of a
\* plugin included, is the same outcome of both.
C7_SameOutcome ==
    \A c \in Containers, k \in ShapeKeys :
       LET best_effort == try_resolve_bean(c, k.bean_contract, k.bean_name)
           must == resolve_bean(c, k.bean_contract, k.bean_name)
       IN  /\ ~ResolutionFailed(best_effort)
           /\ ~NotFound(must)
           /\ NotFound(best_effort) <=> ResolutionFailed(must)
           /\ ~NotFound(best_effort) => must = best_effort

\* The Bean-List registrations for key on the chain of c: those of the nearer
\* containers first and, within a container, in registration order.
RECURSIVE BeanListRegistrations(_, _)
BeanListRegistrations(c, key) ==
    IF c = 0 THEN <<>>
    ELSE (IF key \in DOMAIN BeanListRegistry(c) THEN BeanListRegistry(c)[key] ELSE <<>>)
         \o BeanListRegistrations(parent[c], key)

\* C10: resolving a Bean-List key from a child container whose chain holds
\* beans for it returns one value per registered bean, those of the nearer
\* containers first and, within a container, in registration order.
C10_BeanListAggregation ==
    (/\ Resolved
     /\ applies_to(result.key.bean_contract)
     /\ parent[result.container] # 0
     /\ BeanListRegistrations(result.container, result.key) # <<>>)
    => /\ result.kind = "Return"
       /\ result.value.src = "BeanList"
       /\ Len(result.value.beans)
             = Len(BeanListRegistrations(result.container, result.key))
       /\ \A i \in 1 .. Len(result.value.beans) :
             ValueOf(result.value.beans[i],
                     BeanListRegistrations(result.container, result.key)[i])

\* C11: for a Bean-List key the reduce step answers Continue at every level
\* of every walk, whether or not that level holds a registration for the key,
\* and a resolution of the key returns the beans of the chain.
C11_AlwaysContinue ==
    /\ \A c \in Containers, a \in Containers :
          BeanList_reduce(RegistrationKey(BeanListIBean, NoName), <<>>, c, a).kind
             = "Continue"
    /\ (Resolved /\ applies_to(result.key.bean_contract))
       => /\ result.kind = "Return"
          /\ result.value.src = "BeanList"

\* C12: a resolution of the unnamed Injector contract from container C returns
\* the injector bound to C, whatever has been registered in the hierarchy.
C12_BuiltInInjector ==
    (Resolved /\ result.key = RegistrationKey(Injector, NoName))
    => /\ result.kind = "Return"
       /\ result.value = ContainerInjector(result.container)

\* C13: a resolution of the unnamed Container contract from container C
\* returns C itself and leaves the resolver cache, the registrations and the
\* invocations as they were, also when the hierarchy holds a registration
\* under that key; no cache ever holds an entry for the key.
C13_Step ==
    (/\ result'.op \in {"try_resolve_bean", "resolve_bean"}
     /\ result'.key = RegistrationKey(ContainerContract, NoName))
    => /\ result'.kind = "Return"
       /\ result'.value = ContainerValue(result'.container)
       /\ UNCHANGED <<cache, registrations, invocations, plugin_storage, plugins>>

C13_ContainerItself ==
    /\ [](\A c \in Containers : RegistrationKey(ContainerContract, NoName) \notin DOMAIN cache[c])
    /\ [][C13_Step]_vars

\* C13 witness: the unnamed Container contract has just been resolved from a
\* container that holds a registration under that very key.
C13_Witness ==
    /\ Resolved
    /\ result.key = RegistrationKey(ContainerContract, NoName)
    /\ result.key \in DOMAIN SingleValueRegistry(result.container)
    /\ result.value = ContainerValue(result.container)

\* The converter keys registered on the chain of c that a request for key can
\* use, those that another one dominates, and those that survive.
ConverterRegistry(c) == plugin_storage[c]["Converter"]
Candidates(c, key) ==
    {k \in UNION {DOMAIN ConverterRegistry(Chain(c)[i]) : i \in 1 .. Len(Chain(c))} :
        is_registration_compatible_with_requested_key(key, k)}
Dominates(j, i) ==
    /\ j # i
    /\ can_substitute(generic_TFrom(j.bean_contract), generic_TFrom(i.bean_contract))
    /\ can_substitute(generic_TTo(i.bean_contract), generic_TTo(j.bean_contract))
Survivors(c, key) ==
    {i \in Candidates(c, key) : ~\E j \in Candidates(c, key) : Dominates(j, i)}

\* res is the bean of a registration that the chain of c holds under key k.
BeanOfConverter(res, c, k) ==
    /\ res.kind = "Return"
    /\ \E i \in 1 .. Len(Chain(c)) :
          /\ k \in DOMAIN ConverterRegistry(Chain(c)[i])
          /\ ValueOf(res.value, ConverterRegistry(Chain(c)[i])[k])

\* What C14 says of an answer res to a request for key from c.
AmbiguityRule(res, c, key) ==
    /\ Cardinality(Survivors(c, key)) > 1
          <=> (res.kind = "Raise" /\ res.exc = "Exception")
    /\ Cardinality(Survivors(c, key)) = 1
          => BeanOfConverter(res, c, CHOOSE k \in Survivors(c, key) : TRUE)
    /\ Cardinality(Survivors(c, key)) = 0
          => (res.kind = "Return" /\ res.value = BEAN_NOT_FOUND)

\* C14: a resolution of a converter key raises the ambiguous-resolution error
\* exactly when more than one candidate of the chain survives domination
\* elimination, returns the survivor when there is exactly one, and reports
\* not found when there is none.
C14_AmbiguousExactly ==
    (Resolved /\ is_registration_key_supported(result.key))
    => AmbiguityRule(result, result.container, result.key)

\* The same of a resolution that the cache does not answer.
C14_Uncached ==
    \A c \in Containers, t \in RequestedConverters :
       RegistrationKey(t, NoName) \notin DOMAIN cache[c]
       => AmbiguityRule(try_resolve_bean(c, t, NoName), c, RegistrationKey(t, NoName))

\* C15: a converter that a resolution returns is registered on the chain of
\* the requesting container under a key compatible with the request that no
\* other compatible key of the chain dominates.
C15_MostSpecific ==
    (/\ Resolved
     /\ is_registration_key_supported(result.key)
     /\ result.kind = "Return"
     /\ result.value # BEAN_NOT_FOUND)
    => \E k \in Survivors(result.container, result.key) :
          BeanOfConverter(result, result.container, k)

\* The same of a resolution that the cache does not answer.
C15_Uncached ==
    \A c \in Containers, t \in RequestedConverters :
       LET res == try_resolve_bean(c, t, NoName)
       IN  (/\ RegistrationKey(t, NoName) \notin DOMAIN cache[c]
            /\ res.kind = "Return"
            /\ res.value # BEAN_NOT_FOUND)
           => \E k \in Survivors(c, RegistrationKey(t, NoName)) :
                 BeanOfConverter(res, c, k)

\* The provider registrations a resolution from c consults, in order: those of
\* c before those of its parent and so on, and within a container the one
\* registered last first.
ProviderRegistry(c) ==
    IF "ConfigurationProvider" \in DOMAIN plugin_storage[c]["Configuration"]
    THEN plugin_storage[c]["Configuration"]["ConfigurationProvider"]
    ELSE <<>>
Reversed(seq) == [i \in 1 .. Len(seq) |-> seq[Len(seq) + 1 - i]]
RECURSIVE ConsultationOrder(_)
ConsultationOrder(c) ==
    IF c = 0 THEN <<>>
    ELSE Reversed(ProviderRegistry(c)) \o ConsultationOrder(parent[c])

\* The positions in the consultation order of c of the providers that hold
\* path, and the value that the first of them holds.
Suppliers(c, path) ==
    {i \in 1 .. Len(ConsultationOrder(c)) :
        get_value(registrations[ConsultationOrder(c)[i]].instance, path) # MISSING}
Supplied(c, path) ==
    get_value(registrations[ConsultationOrder(c)[
                 CHOOSE i \in Suppliers(c, path) : \A o \in Suppliers(c, path) : i <= o
              ]].instance, path)

\* The keys a configuration contract needs, and those of them that neither a
\* provider of the chain of c nor a default supplies.
NeededKeys(contract) ==
    IF is_configuration_class(contract)
    THEN get_paths_to_collect(contract)
    ELSE {full_path(contract)}
MissingKeys(c, contract) ==
    {p \in NeededKeys(contract) :
        Suppliers(c, p) = {} /\ default(Configurable(p)) = MISSING}

\* The value that the bean v, resolved for contract, has for the key path.
FieldValue(v, contract, path) ==
    IF is_configuration_class(contract)
    THEN v.beans[CHOOSE i \in 1 .. Len(configuration_fields(contract)) :
                    full_path(configuration_fields(contract)[i]) = path]
    ELSE v

\* What C16 says of an answer res to a request for key from c.
FirstProviderRule(res, c, key) ==
    (res.kind = "Return" /\ res.value # BEAN_NOT_FOUND)
    => \A p \in NeededKeys(key.bean_contract) :
          Suppliers(c, p) # {}
             => FieldValue(res.value, key.bean_contract, p) = Supplied(c, p)

\* C16: every key of a resolved configuration class or field that some
\* provider of the chain holds has the value of the first provider that holds
\* it in consultation order, each key on its own.
C16_FirstProvider ==
    (Resolved /\ Configuration_applies_to(result.key))
    => FirstProviderRule(result, result.container, result.key)

\* The same of a resolution that the cache does not answer.
C16_Uncached ==
    \A c \in Containers, t \in ConfigurationContracts :
       RegistrationKey(t, NoName) \notin DOMAIN cache[c]
       => FirstProviderRule(try_resolve_bean(c, t, NoName), c, RegistrationKey(t, NoName))

\* What C18 says of an answer res to a request for key from c.
DefaultRule(res, c, key) ==
    (res.kind = "Return" /\ res.value # BEAN_NOT_FOUND)
    => \A p \in NeededKeys(key.bean_contract) :
          default(Configurable(p)) # MISSING
             => (FieldValue(res.value, key.bean_contract, p) = default(Configurable(p))
                    <=> Suppliers(c, p) = {})

\* C18: a resolved configuration class or field has the declared default of a
\* key exactly when no provider on the chain of the requesting container
\* holds that key.
C18_DefaultOnlyWhenUnsupplied ==
    (Resolved /\ Configuration_applies_to(result.key))
    => DefaultRule(result, result.container, result.key)

\* The same of a resolution that the cache does not answer.
C18_Uncached ==
    \A c \in Containers, t \in ConfigurationContracts :
       RegistrationKey(t, NoName) \notin DOMAIN cache[c]
       => DefaultRule(try_resolve_bean(c, t, NoName), c, RegistrationKey(t, NoName))

\* C17: a resolution of a configuration class or field raises
\* MissingConfigurationKeysException exactly when some needed key has neither
\* a provider on the chain nor a default, and the exception carries all of
\* these keys.
C17_MissingKeys ==
    (Resolved /\ Configuration_applies_to(result.key))
    => LET missing == MissingKeys(result.container, result.key.bean_contract)
           raised == /\ result.kind = "Raise"
                     /\ result.exc = "MissingConfigurationKeysException"
       IN  /\ raised <=> missing # {}
           /\ ~raised => (result.kind = "Return" /\ result.value # BEAN_NOT_FOUND)
           /\ raised =>
                 /\ result.key \notin DOMAIN cache[result.container]
                 /\ ResolveUncached(result.container, result.key).missing_keys = missing

\* C17 witness: the class has just been refused for its two keys without a
\* default at once; or for one of them while an ancestor's provider holds the
\* other.
C17_Witness ==
    /\ Resolved
    /\ result.exc = "MissingConfigurationKeysException"
    /\ result.key.bean_contract = StrictConfigurationClass
    /\ parent[result.container] # 0
    /\ MissingKeys(result.container, result.key.bean_contract) = {"bar"}
    /\ ProviderRegistry(result.container) = <<>>

\* C19: a step of add_plugin(p), on whichever container, leaves every
\* container of the hierarchy reporting one list: p followed by the list
\* reported before the step.
C19_Step ==
    result'.op = "add_plugin"
    => \A c \in DOMAIN parent :
          PluginsOf(c)' = <<result'.key.bean_contract.args[1]>> \o PluginsOf(1)
C19_SharedPluginList ==
    /\ [](\A c \in Containers : PluginsOf(c) = PluginsOf(1))
    /\ [][C19_Step]_vars

\* C19 witness: a plugin has just been added on a container that has a
\* parent, after the other plugin had been added, in a hierarchy of three.
C19_Witness ==
    /\ result.op = "add_plugin"
    /\ parent[result.container] # 0
    /\ Len(parent) = 3
    /\ Len(PluginsOf(result.container)) = Len(DefaultPlugins) + 2
    /\ PluginsOf(1)[1] = result.key.bean_contract.args[1]
    /\ PluginsOf(1)[2] # PluginsOf(1)[1]

\* C20: a step in which a plugin accepts the registration of a key on a
\* container takes that key out of that container's cache and leaves every
\* other entry of every cache as it was.
C20_Step ==
    (/\ result'.op \in {"register_instance", "register_factory"}
     /\ Len(registrations') > Len(registrations))
    => \A c \in DOMAIN cache :
          /\ DOMAIN cache'[c] =
                IF c = result'.container
                THEN (DOMAIN cache[c]) \ {result'.key}
                ELSE DOMAIN cache[c]
          /\ \A k \in DOMAIN cache'[c] : cache'[c][k] = cache[c][k]
C20_RegistrationFrame == [][C20_Step]_vars

\* C20 witness: a key has just been registered on a container that keeps a
\* cached resolver of another key, while its parent keeps one of the
\* registered key.
C20_Witness ==
    /\ result.op = "register_instance"
    /\ result.kind = "Return"
    /\ registrations[Len(registrations)].container = result.container
    /\ registrations[Len(registrations)].key = result.key
    /\ parent[result.container] # 0
    /\ DOMAIN cache[result.container] = FrameKeys \ {result.key}
    /\ result.key \in DOMAIN cache[parent[result.container]]

\* ------------------------------------------------- the calls of a resolution
\* The plugin calls that a request for contract t makes from container c in
\* the present state.
Calls(c, t) == try_resolve_bean(c, t, NoName).calls

\* The state that plugin j holds after the first n calls: the one its last
\* create_initial_state or reduce among them has answered.
StateAfter(calls, n, j) ==
    LET own == {m \in 1 .. n : /\ calls[m].plugin = j
                               /\ calls[m].op \in {"create_initial_state", "reduce"}
                               /\ "state" \in DOMAIN calls[m].res}
    IN  calls[CHOOSE m \in own : \A o \in own : o <= m].res.state

\* What C21 says of the call n of a resolution from c, a reduce answered
\* Continue: no later reduce at its level, the next call is the first
\* plugin's at the parent level (its postprocess when there is no parent),
\* and the states after it are those before it but for the answering
\* plugin's, which is the answered one.
ContinueRule(c, calls, n) ==
    /\ \A m \in n + 1 .. Len(calls) :
          ~(calls[m].op = "reduce" /\ calls[m].level = calls[n].level)
    /\ n < Len(calls)
    /\ calls[n + 1].plugin = 1
    /\ IF parent[calls[n].level] # 0
       THEN calls[n + 1].op = "reduce" /\ calls[n + 1].level = parent[calls[n].level]
       ELSE calls[n + 1].op = "postprocess"
    /\ \A j \in 1 .. Len(PluginsOf(c)) :
          StateAfter(calls, n, j) =
             IF j = calls[n].plugin THEN calls[n].res.state
             ELSE StateAfter(calls, n - 1, j)
    /\ \A m \in n + 1 .. Len(calls) :
          calls[m].state = StateAfter(calls, m - 1, calls[m].plugin)

\* C21: in every resolution a reduce that answers Continue ends its level:
\* the later plugins are not called there and keep their states, the
\* answering plugin has the answered state, and the walk goes on at the
\* parent level.
C21_ContinueEndsLevel ==
    \A c \in Containers, t \in ProtocolContracts :
       \A n \in 1 .. Len(Calls(c, t)) :
          (Calls(c, t)[n].op = "reduce" /\ Calls(c, t)[n].res.kind = "Continue")
          => ContinueRule(c, Calls(c, t), n)

\* C21 witness: a resolution from a container with a parent in which a
\* plugin that is not the last of the list answers Continue with a state it
\* has changed, and is handed that state at the parent level.
C21_Witness ==
    \E c \in Containers, t \in ProtocolContracts :
       \E n \in 1 .. Len(Calls(c, t)) :
          /\ Calls(c, t)[n].op = "reduce"
          /\ Calls(c, t)[n].res.kind = "Continue"
          /\ Calls(c, t)[n].plugin < Len(PluginsOf(c))
          /\ Calls(c, t)[n].level = c
          /\ parent[c] # 0
          /\ Calls(c, t)[n].res.state # Calls(c, t)[n].state
          /\ Calls(c, t)[n + 1].level = parent[c]
          /\ Calls(c, t)[n + 1].state = Calls(c, t)[n].res.state

\* ------------------------------------------------------- registrations(C)
\* Whether the register of plugin p takes a registration under key, and the
\* plugin of the list of c that takes it: the first one that does.
Accepts(p, key) ==
    CASE p = "BeanList" -> applies_to(key.bean_contract)
      [] p = "SingleValue" -> TRUE
      [] p = "Special" -> FALSE
      [] p = "Converter" -> is_registration_key_supported(key)
      [] p = "Configuration" -> key.bean_contract = BeanListConfigurationProvider
AcceptingPlugin(c, key) ==
    PluginsOf(c)[CHOOSE i \in 1 .. Len(PluginsOf(c)) :
                    /\ Accepts(PluginsOf(c)[i], key)
                    /\ \A j \in 1 .. i - 1 : ~Accepts(PluginsOf(c)[j], key)]

\* The registrations that plugin p has accepted on container c.
AcceptedOn(p, c) ==
    {r \in DOMAIN registrations :
        /\ registrations[r].container = c
        /\ AcceptingPlugin(c, registrations[r].key) = p}

\* What C22 says of plugin p and container c.
EnumeratesOwn(p, c) ==
    /\ Len(plugin_registrations(p, c)) = Cardinality(AcceptedOn(p, c))
    /\ {plugin_registrations(p, c)[i] : i \in 1 .. Len(plugin_registrations(p, c))}
          = {<<registrations[r].key, r>> : r \in AcceptedOn(p, c)}

\* C22: registrations(C) of every plugin lists, each once and with the key it
\* was registered under, the registrations the plugin has accepted on C and
\* no others.
C22_RegistrationsEnumerate ==
    \A c \in Containers, p \in PluginNames : EnumeratesOwn(p, c)

\* The same of the plugins other than the configuration plugin.
C22_OtherPlugins ==
    \A c \in Containers, p \in PluginNames \ {"Configuration"} : EnumeratesOwn(p, c)

\* The configuration plugin lists its own registrations, each once, whatever
\* it pairs them with.
C22_ConfigurationOwn ==
    \A c \in Containers :
       /\ Len(Configuration_registrations(c)) = Cardinality(AcceptedOn("Configuration", c))
       /\ {Configuration_registrations(c)[i][2] : i \in 1 .. Len(Configuration_registrations(c))}
             = AcceptedOn("Configuration", c)

\* What C23 says of the resolution out of key from c whose call n is a
\* reduce answered Return: the call is the last one, the bean is what get()
\* of the answered resolver returns, and the cache of c afterwards is the
\* cache before with the resolver under key if the resolver is cacheable,
\* the cache before if not; no other cache differs.
ReturnRule(c, key, out, n) ==
    LET resolver == out.calls[n].res.resolver
        got == ResolverGet(resolver, registrations, invocations)
    IN  /\ n = Len(out.calls)
        /\ out.kind = "Return"
        /\ out.value = got.value
        /\ out.invocations = got.invocations
        /\ \A d \in Containers \ {c} : out.cache[d] = cache[d]
        /\ DOMAIN out.cache[c] =
              IF resolver.is_cacheable THEN (DOMAIN cache[c]) \cup {key} ELSE DOMAIN cache[c]
        /\ \A k \in DOMAIN out.cache[c] :
              out.cache[c][k] = IF k = key THEN resolver ELSE cache[c][k]

\* C23: in every resolution a reduce answered Return is the last plugin call,
\* its resolver's get() is the result, and the resolver is cached under the
\* requested key on the requesting container exactly if it is cacheable;
\* every cached resolver is cacheable.
C23_ReturnEndsResolution ==
    /\ \A c \in Containers, t \in ProtocolContracts :
          \A n \in 1 .. Len(Calls(c, t)) :
             (Calls(c, t)[n].op = "reduce" /\ Calls(c, t)[n].res.kind = "Return")
             => ReturnRule(c, RegistrationKey(t, NoName), try_resolve_bean(c, t, NoName), n)
    /\ \A c \in Containers : \A k \in DOMAIN cache[c] : cache[c][k].is_cacheable

\* C23 witness: a resolution from a container with a parent is answered
\* Return by a plugin that is not the first, at the parent level, while the
\* caches of both containers hold other keys.
C23_Witness ==
    \E c \in Containers, t \in ProtocolContracts :
       /\ parent[c] # 0
       /\ Len(Calls(c, t)) > 0
       /\ Calls(c, t)[Len(Calls(c, t))].op = "reduce"
       /\ Calls(c, t)[Len(Calls(c, t))].res.kind = "Return"
       /\ Calls(c, t)[Len(Calls(c, t))].level = parent[c]
       /\ Calls(c, t)[Len(Calls(c, t))].plugin > 1
       /\ DOMAIN cache[c] # {}
       /\ DOMAIN cache[parent[c]] # {}

\* C24: a resolution of a key that the cache of the requesting container
\* holds calls no plugin; its result and the factory calls it makes are those
\* of one get() of the cached resolver, and it leaves caches and registries
\* as they were.
C24_Step ==
    (/\ result'.op \in {"try_resolve_bean", "resolve_bean"}
     /\ result'.key \in DOMAIN cache[result'.container])
    => LET got == ResolverGet(cache[result'.container][result'.key],
                              registrations, invocations)
       IN  /\ try_resolve_bean(result'.container, result'.key.bean_contract,
                               result'.key.bean_name).calls = <<>>
           /\ result'.kind = "Return"
           /\ result'.value = got.value
           /\ invocations' = got.invocations
           /\ registrations' = got.registrations
           /\ Len(invocations') <= Len(invocations) + 1
           /\ cache' = cache
           /\ plugin_storage' = plugin_storage
C24_CacheHit == [][C24_Step]_vars

\* C24 witness: a container with a parent has resolved a transient key three
\* times, the last two times through its resolver cache, and got the third
\* call's bean.
C24_Witness ==
    /\ Resolved
    /\ parent[result.container] # 0
    /\ Len(invocations) = 3
    /\ invocations[1] = invocations[3]
    /\ invocations[2] = invocations[3]
    /\ registrations[invocations[3]].type = "Transient"
    /\ result.key \in DOMAIN cache[result.container]
    /\ result.value = FactoryValue(3)

\* The containers of the chain of c.
ChainSet(c) == {Chain(c)[i] : i \in 1 .. Len(Chain(c))}

\* What C25 says of the call n of the resolution out of key from c, a
\* postprocess: no plugin has answered Return before, reduce has been called
\* at every level of the chain, the first plugin is called first and each
\* further one after the NotFound of its predecessor, with the state its
\* last reduce has left; a Return ends the resolution with the resolver's
\* bean and the resolver cached, the NotFound of the last plugin ends it with
\* BEAN_NOT_FOUND and the cache as it was.
PostprocessRule(c, key, out, n) ==
    LET calls == out.calls
        call == calls[n]
    IN  /\ \A m \in 1 .. n - 1 : calls[m].res.kind \notin {"Return", "Raise"}
        /\ \A d \in ChainSet(c) :
              \E m \in 1 .. n - 1 : calls[m].op = "reduce" /\ calls[m].level = d
        /\ \A m \in n + 1 .. Len(calls) : calls[m].op = "postprocess"
        /\ IF calls[n - 1].op = "postprocess"
           THEN /\ call.plugin = calls[n - 1].plugin + 1
                /\ calls[n - 1].res.kind = "NotFound"
           ELSE /\ call.plugin = 1
                /\ calls[n - 1].op = "reduce"
                /\ calls[n - 1].level = Chain(c)[Len(Chain(c))]
        /\ call.state = StateAfter(calls, n, call.plugin)
        /\ call.res.kind = "Return"
           => /\ n = Len(calls)
              /\ out.kind = "Return"
              /\ out.value = ResolverGet(call.res.resolver, registrations, invocations).value
              /\ out.cache = IF call.res.resolver.is_cacheable
                             THEN cache_put(cache, c, key, call.res.resolver)
                             ELSE cache
        /\ (call.res.kind = "NotFound" /\ call.plugin = Len(PluginsOf(c)))
           => /\ n = Len(calls)
              /\ out.kind = "Return"
              /\ out.value = BEAN_NOT_FOUND
              /\ out.cache = cache
        /\ (call.res.kind = "NotFound" /\ call.plugin < Len(PluginsOf(c)))
           => n < Len(calls)

\* C25: in every resolution postprocess is called only once reduce has gone
\* over the whole chain without a Return, on the plugins in list order with
\* the states their last reduce left, up to the first Return, whose resolver
\* is cached if cacheable; when all answer NotFound the bean is not found.
C25_PostprocessAfterWalk ==
    \A c \in Containers, t \in ProtocolContracts :
       \A n \in 1 .. Len(Calls(c, t)) :
          Calls(c, t)[n].op = "postprocess"
          => PostprocessRule(c, RegistrationKey(t, NoName), try_resolve_bean(c, t, NoName), n)

\* resolve_bean raises where try_resolve_bean returns BEAN_NOT_FOUND
C25_Fails ==
    \A c \in Containers, t \in ProtocolContracts :
       try_resolve_bean(c, t, NoName).value = BEAN_NOT_FOUND
       => resolve_bean(c, t, NoName).kind = "Raise"

\* C25 witness: a plugin that is not the first has answered Return at
\* postprocess with a state that its reduce has changed; a resolution from a
\* container with a parent has been answered Return at postprocess; and in a
\* third every plugin has answered NotFound at postprocess.
ReturnedAtPostprocess(c, t) ==
    LET calls == Calls(c, t)
    IN  /\ Len(calls) > 0
        /\ calls[Len(calls)].op = "postprocess"
        /\ calls[Len(calls)].res.kind = "Return"
C25_Witness ==
    /\ \E c \in Containers, t \in ProtocolContracts :
          /\ ReturnedAtPostprocess(c, t)
          /\ Calls(c, t)[Len(Calls(c, t))].plugin > 1
          /\ Calls(c, t)[Len(Calls(c, t))].state #
                resolve_bean_create_initial_state(
                   PluginsOf(c)[Calls(c, t)[Len(Calls(c, t))].plugin],
                   RegistrationKey(t, NoName), c)
    /\ \E c \in Containers, t \in ProtocolContracts :
          /\ ReturnedAtPostprocess(c, t)
          /\ parent[c] # 0
    /\ \E c \in Containers, t \in ProtocolContracts :
          LET calls == Calls(c, t)
          IN  /\ Len(calls) > 0
              /\ calls[Len(calls)].op = "postprocess"
              /\ calls[Len(calls)].res.kind = "NotFound"
              /\ try_resolve_bean(c, t, NoName).value = BEAN_NOT_FOUND

\* What C26 says of the calls of an uncached resolution from c: the first
\* calls are the create_initial_state of the plugins in list order and no
\* later call is one; the first reduce is the first plugin's at the level of
\* c; after a NotFound of a reduce the next plugin has its turn at the same
\* level, and after the last plugin's the first one at the parent level (at
\* postprocess when there is no parent); every reduce is handed the state
\* that its plugin has answered last.
WalkOrderRule(c, calls) ==
    LET P == Len(PluginsOf(c))
    IN  /\ Len(calls) >= P
        /\ \A n \in 1 .. Len(calls) :
              (calls[n].op = "create_initial_state") <=> (n <= P)
        /\ \A n \in 1 .. P :
              /\ calls[n].plugin = n
              /\ calls[n].res.kind = "State"
        /\ Len(calls) > P
           => /\ calls[P + 1].op = "reduce"
              /\ calls[P + 1].plugin = 1
              /\ calls[P + 1].level = c
        /\ \A n \in P + 1 .. Len(calls) :
              calls[n].op = "reduce"
              => /\ calls[n].level \in ChainSet(c)
                 /\ calls[n].state = StateAfter(calls, n - 1, calls[n].plugin)
                 /\ calls[n].res.kind = "NotFound"
                    => /\ n < Len(calls)
                       /\ StateAfter(calls, n, calls[n].plugin) = calls[n].res.state
                       /\ IF calls[n].plugin < P
                          THEN /\ calls[n + 1].op = "reduce"
                               /\ calls[n + 1].level = calls[n].level
                               /\ calls[n + 1].plugin = calls[n].plugin + 1
                          ELSE IF parent[calls[n].level] # 0
                          THEN /\ calls[n + 1].op = "reduce"
                               /\ calls[n + 1].level = parent[calls[n].level]
                               /\ calls[n + 1].plugin = 1
                          ELSE /\ calls[n + 1].op = "postprocess"
                               /\ calls[n + 1].plugin = 1

\* The request of contract t from c is not answered from the cache, nor by
\* the container itself.
Uncached(c, t) ==
    /\ RegistrationKey(t, NoName) \notin DOMAIN cache[c]
    /\ t # ContainerContract

\* C26: in every uncached resolution create_initial_state is called for all
\* plugins before any reduce, reduce goes level by level from the requesting
\* container to the root and in list order within a level, and a NotFound
\* passes the turn to the next plugin at the same level, the answered state
\* being the plugin's state from then on.
C26_WalkOrder ==
    \A c \in Containers, t \in ProtocolContracts :
       Uncached(c, t) => WalkOrderRule(c, Calls(c, t))

\* C26 witness: an uncached resolution from a container with a parent in
\* which the last plugin of the list answers NotFound at the level of the
\* requesting container and at the parent level a plugin that is not the
\* first has its turn.
C26_Witness ==
    \E c \in Containers, t \in ProtocolContracts :
       /\ Uncached(c, t)
       /\ parent[c] # 0
       /\ Len(PluginsOf(c)) > Len(DefaultPlugins)
       /\ \E n \in 1 .. Len(Calls(c, t)) :
             /\ Calls(c, t)[n].op = "reduce"
             /\ Calls(c, t)[n].level = c
             /\ Calls(c, t)[n].plugin = Len(PluginsOf(c))
             /\ Calls(c, t)[n].res.kind = "NotFound"
       /\ \E n \in 1 .. Len(Calls(c, t)) :
             /\ Calls(c, t)[n].op = "reduce"
             /\ Calls(c, t)[n].level = parent[c]
             /\ Calls(c, t)[n].plugin > 1

\* What C27 says of the calls of a resolution from c: no plugin is called
\* twice for reduce at one level or twice for postprocess, the reduce calls
\* go up the chain and never come back to a level, a walk that has reached
\* postprocess has been at every level of the chain, and the number of calls
\* is bounded by the lengths of the plugin list and of the chain.
VisitsOnceRule(c, calls) ==
    LET N == 1 .. Len(calls)
    IN  /\ \A n, m \in N :
              (/\ n < m
               /\ calls[n].op \in {"reduce", "postprocess"}
               /\ calls[n].op = calls[m].op
               /\ calls[n].level = calls[m].level)
              => calls[n].plugin < calls[m].plugin
        /\ \A n, m \in N :
              (n < m /\ calls[n].op = "reduce" /\ calls[m].op = "reduce")
              => calls[m].level \in {calls[n].level} \cup Ancestors(calls[n].level)
        /\ (\E n \in N : calls[n].op = "postprocess")
           => \A d \in ChainSet(c) : \E n \in N : calls[n].op = "reduce" /\ calls[n].level = d
        /\ Len(calls) <= Len(PluginsOf(c)) * (Len(Chain(c)) + 2)

\* The parent links lead from every container to a root in fewer steps than
\* there are containers.
ChainsFinite ==
    \A c \in Containers :
       /\ parent[c] \in 0 .. c - 1
       /\ Len(Chain(c)) <= c
       /\ Chain(c)[Len(Chain(c))] \in {d \in Containers : parent[d] = 0}

\* No step changes the parent of a container.
ParentFixed == \A c \in Containers : parent'[c] = parent[c]

\* C27: the parent link of a container never changes and the chains are
\* finite and acyclic; in every resolution each level of the chain is
\* visited once and in order, a plugin's reduce is called at most once per
\* level and its postprocess at most once.
C27_Terminates ==
    /\ [](ChainsFinite /\ \A c \in Containers, t \in ProtocolContracts :
                             VisitsOnceRule(c, Calls(c, t)))
    /\ [][ParentFixed]_vars

\* C27 witness: a container created as a child has resolved a key by a walk
\* over its own and its parent's level in which every plugin was called for
\* reduce at both levels and for postprocess.
C27_Witness ==
    /\ Resolved
    /\ parent[result.container] # 0
    /\ \E t \in ProtocolContracts :
          /\ result.key = RegistrationKey(t, NoName)
          /\ \A i \in 1 .. Len(PluginsOf(result.container)) :
                /\ \A d \in ChainSet(result.container) :
                      \E n \in 1 .. Len(Calls(result.container, t)) :
                         /\ Calls(result.container, t)[n].op = "reduce"
                         /\ Calls(result.container, t)[n].level = d
                         /\ Calls(result.container, t)[n].plugin = i
                /\ \E n \in 1 .. Len(Calls(result.container, t)) :
                      /\ Calls(result.container, t)[n].op = "postprocess"
                      /\ Calls(result.container, t)[n].plugin = i

\* The container of the chain of c nearest to c that holds key k in the
\* registry of the converter plugin.
HoldersOf(c, k) == {i \in 1 .. Len(Chain(c)) : k \in DOMAIN ConverterRegistry(Chain(c)[i])}
NearestHolder(c, k) == Chain(c)[CHOOSE i \in HoldersOf(c, k) : \A j \in HoldersOf(c, k) : i <= j]

\* What C28 says of the calls of a resolution of key from c whose plugin i is
\* the converter plugin: its reduce answers Continue at every level of the
\* chain, and the candidates handed to its postprocess are, once each, the
\* compatible keys of the chain with the registration of the nearest holder.
CandidatesRule(c, key, calls, i) ==
    /\ \A n \in 1 .. Len(calls) :
          (calls[n].op = "reduce" /\ calls[n].plugin = i) => calls[n].res.kind = "Continue"
    /\ \A d \in ChainSet(c) :
          \E n \in 1 .. Len(calls) :
             calls[n].op = "reduce" /\ calls[n].plugin = i /\ calls[n].level = d
    /\ \E n \in 1 .. Len(calls) :
          /\ calls[n].op = "postprocess"
          /\ calls[n].plugin = i
          /\ LET candidates == calls[n].state
             IN  /\ {candidates[m].key : m \in 1 .. Len(candidates)} = Candidates(c, key)
                 /\ Len(candidates) = Cardinality(Candidates(c, key))
                 /\ \A m \in 1 .. Len(candidates) :
                       candidates[m].registration =
                          ConverterRegistry(NearestHolder(c, candidates[m].key))[candidates[m].key]

\* C28: in every uncached resolution of a converter key with the converter
\* plugin first in the list, the plugin's reduce answers Continue at every
\* level and the candidates at the end of the walk are exactly the
\* compatible registered keys, each with the registration of the nearest
\* container of the chain that holds the key.
C28_CandidatesCollected ==
    \A c \in Containers, t \in RequestedConverters :
       (Uncached(c, t) /\ PluginsOf(c)[1] = "Converter")
       => CandidatesRule(c, RegistrationKey(t, NoName), Calls(c, t), 1)

\* C28 witness: a container and its parent hold a registration each under
\* the same converter key; an uncached request from the container that is
\* compatible with the key collects the container's own registration, and
\* one that is not collects nothing.
C28_Witness ==
    \E c \in Containers, k \in {RegistrationKey(r, NoName) : r \in RegisteredConverters} :
       /\ parent[c] # 0
       /\ PluginsOf(c)[1] = "Converter"
       /\ k \in DOMAIN ConverterRegistry(c)
       /\ k \in DOMAIN ConverterRegistry(parent[c])
       /\ \E t \in RequestedConverters :
             /\ Uncached(c, t)
             /\ k \in Candidates(c, RegistrationKey(t, NoName))
             /\ \E n \in 1 .. Len(Calls(c, t)) :
                   /\ Calls(c, t)[n].op = "postprocess"
                   /\ Calls(c, t)[n].plugin = 1
                   /\ Len(Calls(c, t)[n].state) = 1
                   /\ Calls(c, t)[n].state[1].registration = ConverterRegistry(c)[k]
       /\ \E t \in RequestedConverters :
             /\ Uncached(c, t)
             /\ Candidates(c, RegistrationKey(t, NoName)) = {}
             /\ \E n \in 1 .. Len(Calls(c, t)) :
                   /\ Calls(c, t)[n].op = "postprocess"
                   /\ Calls(c, t)[n].plugin = 1
                   /\ Calls(c, t)[n].state = <<>>

\* The keys of the candidates that choose_best_candidate leaves undominated,
\* and those that no other candidate dominates.
Undominated(candidates) ==
    {candidates[i].key :
        i \in {n \in 1 .. Len(candidates) :
                  ~Eliminate(candidates, [m \in 1 .. Len(candidates) |-> FALSE], 1)[n]}}
CandidateKeys(candidates) == {candidates[n].key : n \in 1 .. Len(candidates)}
NotDominated(candidates) ==
    {i \in CandidateKeys(candidates) :
        ~\E j \in CandidateKeys(candidates) : Dominates(j, i)}

\* The candidates handed to the postprocess of the converter plugin in the
\* resolution with the calls given.
HandedCandidates(calls) ==
    calls[CHOOSE n \in 1 .. Len(calls) :
             calls[n].op = "postprocess" /\ calls[n].plugin = 1].state

\* The converter request from c goes through the converter plugin.
ConverterWalk(c, t) ==
    /\ Uncached(c, t)
    /\ PluginsOf(c)[1] = "Converter"

\* C29: the candidates that survive domination elimination are exactly
\* those that no other candidate dominates, in every uncached resolution of
\* a converter.
C29_SurvivorsNotDominated ==
    \A c \in Containers :
       ConverterWalk(c, Converter("Derived", "Derived"))
       => Undominated(HandedCandidates(Calls(c, Converter("Derived", "Derived"))))
          = NotDominated(HandedCandidates(Calls(c, Converter("Derived", "Derived"))))

\* No two candidates with distinct keys dominate each other.
NoMutualDomination(candidates) ==
    \A i, j \in CandidateKeys(candidates) : ~(Dominates(i, j) /\ Dominates(j, i))

\* The same for candidates of which no two dominate each other.
C29_WithoutMutualDomination ==
    \A c \in Containers, t \in RequestedConverters \cup {Converter("Derived", "Derived")} :
       (/\ ConverterWalk(c, t)
        /\ NoMutualDomination(HandedCandidates(Calls(c, t))))
       => Undominated(HandedCandidates(Calls(c, t)))
          = NotDominated(HandedCandidates(Calls(c, t)))

\* The position in the chain of c of the nearest container that holds key k
\* in the registry of the converter plugin.
LevelOf(c, k) == CHOOSE i \in HoldersOf(c, k) : \A j \in HoldersOf(c, k) : i <= j

\* The orders in which the walk from c can hand over the candidates given,
\* the registrations of each container having been made in any order: the
\* permutations that keep the candidates of a nearer container before those
\* of a farther one.
Reorderings(c, candidates) ==
    LET N == 1 .. Len(candidates)
        perms == {f \in [N -> N] : \A a, b \in N : a # b => f[a] # f[b]}
    IN  {[n \in N |-> candidates[f[n]]] :
            f \in {g \in perms :
                     \A a, b \in N :
                        a < b => LevelOf(c, candidates[g[a]].key)
                                    <= LevelOf(c, candidates[g[b]].key)}}

\* What choose_best_candidate makes of the candidates: the chosen key and
\* registration, None or the exception.
Outcome(key, candidates) ==
    IF Len(candidates) = 0 THEN [kind |-> "None"]
    ELSE choose_best_candidate(key, candidates)

\* C30: in every uncached resolution of a converter the outcome of the
\* choice among the candidates is the same for every order in which the
\* registrations of the containers of the chain can have been made.
C30_OrderIndependent ==
    \A c \in Containers :
       ConverterWalk(c, Converter("Derived", "Derived"))
       => \A other \in Reorderings(c, HandedCandidates(Calls(c, Converter("Derived", "Derived")))) :
             Outcome(RegistrationKey(Converter("Derived", "Derived"), NoName), other)
             = Outcome(RegistrationKey(Converter("Derived", "Derived"), NoName),
                       HandedCandidates(Calls(c, Converter("Derived", "Derived"))))

\* The same for candidates of which no two dominate each other.
C30_WithoutMutualDomination ==
    \A c \in Containers, t \in RequestedConverters \cup {Converter("Derived", "Derived")} :
       (/\ ConverterWalk(c, t)
        /\ NoMutualDomination(HandedCandidates(Calls(c, t))))
       => \A other \in Reorderings(c, HandedCandidates(Calls(c, t))) :
             Outcome(RegistrationKey(t, NoName), other)
             = Outcome(RegistrationKey(t, NoName), HandedCandidates(Calls(c, t)))

\* Some resolution has two candidates from one container, which it can be
\* handed in either order.
C30_Reordered ==
    \E c \in Containers, t \in RequestedConverters :
       /\ ConverterWalk(c, t)
       /\ Cardinality(Reorderings(c, HandedCandidates(Calls(c, t)))) > 1

\* Every container of the chain of c holds a registration under the
\* Bean-List key.
HeldAlongChain(c, key) == \A d \in ChainSet(c) : key \in DOMAIN BeanListRegistry(d)

\* C31: a resolution of a Bean-List key from a container whose chain holds
\* beans for it at every level returns exactly the beans registered for the
\* key on the chain at the time of the resolution, one value per
\* registration.
C31_CurrentBeans ==
    (/\ Resolved
     /\ applies_to(result.key.bean_contract)
     /\ HeldAlongChain(result.container, result.key))
    => /\ result.kind = "Return"
       /\ Len(result.value.beans)
             = Len(BeanListRegistrations(result.container, result.key))
       /\ \A i \in 1 .. Len(result.value.beans) :
             ValueOf(result.value.beans[i],
                     BeanListRegistrations(result.container, result.key)[i])

\* The same of a resolution that the cache does not answer.
C31_Uncached ==
    \A c \in Containers :
       LET key == RegistrationKey(BeanListIBean, NoName)
           res == try_resolve_bean(c, BeanListIBean, NoName)
       IN  (key \notin DOMAIN cache[c] /\ HeldAlongChain(c, key))
           => /\ res.kind = "Return"
              /\ Len(res.value.beans) = Len(BeanListRegistrations(c, key))

\* The resolvers a Bean-List aggregate can be made of in the current state,
\* cacheable or created otherwise, and the lists of up to two of them.
ConstituentResolvers ==
    {RegistrationBeanResolver_init(r, c, b) :
        r \in DOMAIN registrations, c \in Containers, b \in BOOLEAN}
ResolverLists ==
    {<<>>} \cup {<<x>> : x \in ConstituentResolvers}
           \cup {<<x, y>> : x, y \in ConstituentResolvers}

\* The registrations of the resolvers whose factory is called at every get,
\* in list order.
RECURSIVE TransientCalls(_)
TransientCalls(resolvers) ==
    IF resolvers = <<>> THEN <<>>
    ELSE (IF registrations[Head(resolvers).registration].type = "Transient"
          THEN <<Head(resolvers).registration>> ELSE <<>>)
         \o TransientCalls(Tail(resolvers))

\* What C32 says of the aggregate of resolvers: cacheable exactly if all of
\* them are; its get returns one bean per resolver in list order and calls
\* the factories in list order, at a second call as at the first.
AggregateRule(resolvers) ==
    LET multi == MultiBeanResolver(resolvers)
        first == ResolverGet(multi, registrations, invocations)
        second == ResolverGet(multi, first.registrations, first.invocations)
    IN  /\ multi.is_cacheable <=> \A i \in 1 .. Len(resolvers) : resolvers[i].is_cacheable
        /\ Len(first.value.beans) = Len(resolvers)
        /\ first.invocations = invocations \o TransientCalls(resolvers)
        /\ second.invocations = first.invocations \o TransientCalls(resolvers)
        /\ \A i \in 1 .. Len(resolvers) :
              LET r == resolvers[i].registration
              IN  IF registrations[r].type = "Instance"
                  THEN /\ first.value.beans[i] = registrations[r].instance
                       /\ second.value.beans[i] = registrations[r].instance
                  ELSE /\ first.value.beans[i].src = "factory"
                       /\ first.invocations[first.value.beans[i].id] = r
                       /\ second.invocations[second.value.beans[i].id] = r
                       /\ second.value.beans[i].id > Len(first.invocations)
                       /\ \A j \in 1 .. i - 1 :
                             first.value.beans[j].src = "factory"
                             => first.value.beans[j].id < first.value.beans[i].id

\* C32: an aggregate resolver is cacheable exactly if every constituent is,
\* a resolver of a registration is cacheable unless created otherwise, and
\* the aggregate's get calls the get of every constituent once and in list
\* order, at every call; the aggregates in the caches are such aggregates.
C32_Aggregate ==
    /\ \A resolvers \in ResolverLists : AggregateRule(resolvers)
    /\ \A r \in DOMAIN registrations, c \in Containers :
          /\ RegistrationBeanResolver(r, c).is_cacheable
          /\ RegistrationBeanResolver(r, c) = RegistrationBeanResolver_init(r, c, TRUE)
    /\ \A c \in Containers : \A k \in DOMAIN cache[c] :
          cache[c][k].kind = "Multi"
          => /\ AggregateRule(cache[c][k].resolvers)
             /\ cache[c][k] = MultiBeanResolver(cache[c][k].resolvers)

\* C32 witness: a resolution has returned the beans of a cached aggregate of
\* an instance and a transient factory, the factory called for the second
\* time.
C32_Witness ==
    /\ Resolved
    /\ result.kind = "Return"
    /\ result.key \in DOMAIN cache[result.container]
    /\ cache[result.container][result.key].kind = "Multi"
    /\ Len(cache[result.container][result.key].resolvers) = 2
    /\ \E i, j \in 1 .. 2 :
          /\ result.value.beans[i].src = "instance"
          /\ result.value.beans[j].src = "factory"
          /\ result.value.beans[j].id = 2
          /\ invocations[1] = invocations[2]

\* The registrations that plugin p lists for container d.
StoredIn(p, d) == {plugin_registrations(p, d)[i][2] : i \in 1 .. Len(plugin_registrations(p, d))}

\* The last operation was a registration that has returned.
Registered == result.op \in {"register_instance", "register_factory"} /\ result.kind = "Return"

\* C33: a registration that returns is stored by the first plugin of the
\* list that accepts its key, in the storage of the container it was made
\* on, and the storage of every other plugin and container stays as it was.
C33_Step ==
    Registered'
    => \A c \in Containers, p \in PluginNames, r \in DOMAIN registrations' :
          (/\ c = result'.container
           /\ p = AcceptingPlugin(c, result'.key)
           /\ r = Len(registrations'))
          => /\ r = Len(registrations) + 1
             /\ registrations'[r].container = c
             /\ registrations'[r].key = result'.key
             /\ \A d \in Containers, q \in PluginNames :
                   /\ (r \in StoredIn(q, d)') <=> (d = c /\ q = p)
                   /\ (d # c \/ q # p) => plugin_storage'[d][q] = plugin_storage[d][q]
             /\ StoredIn(p, c)' = StoredIn(p, c) \cup {r}
C33_FirstAcceptingPlugin == [][C33_Step]_vars

\* C33 witness: a provider registration was stored by the configuration
\* plugin, which is in front of the Bean-List and Single-Value plugins, on a
\* container that has a parent.
C33_Witness ==
    /\ Registered
    /\ parent[result.container] # 0
    /\ result.key.bean_contract = BeanListConfigurationProvider
    /\ PluginsOf(result.container)[1] = "Configuration"
    /\ StoredIn("Configuration", result.container) = {Len(registrations)}
    /\ Accepts("BeanList", result.key)
    /\ Accepts("SingleValue", result.key)

\* C34: a resolution step from container c changes no plugin storage, no
\* parent and no plugin list, no cache of another container and no entry of
\* the cache of c under another key than the requested one.
C34_Step ==
    Resolved'
    => /\ plugin_storage' = plugin_storage
       /\ parent' = parent
       /\ plugins' = plugins
       /\ Len(registrations') = Len(registrations)
       /\ \A r \in DOMAIN registrations :
             /\ registrations'[r].container = registrations[r].container
             /\ registrations'[r].key = registrations[r].key
             /\ registrations'[r].type = registrations[r].type
             /\ registrations'[r].instance = registrations[r].instance
       /\ \A d \in Containers :
             d # result'.container => cache'[d] = cache[d]
       /\ \A d \in Containers :
             d = result'.container
             => /\ (DOMAIN cache'[d]) \ {result'.key} = (DOMAIN cache[d]) \ {result'.key}
                /\ \A k \in (DOMAIN cache[d]) \ {result'.key} : cache'[d][k] = cache[d][k]
Duplicate ==
    /\ result.op \in {"register_instance", "register_factory"}
    /\ result.kind = "Raise"
    /\ result.exc = "ContainerAlreadyHasRegistrationError"

\* C35: a registration step that raises the duplicate-registration error
\* changes neither storages, caches nor registrations; the container holds
\* the registration it held under the key, and a resolution of the key from
\* it returns that registration's bean.
C35_Step ==
    Duplicate'
    => /\ UNCHANGED <<parent, plugins, plugin_storage, cache, registrations, invocations>>
       /\ \A c \in Containers :
             c = result'.container
             => /\ result'.key \in DOMAIN SingleValueRegistry(c)
                /\ try_resolve_bean(c, result'.key.bean_contract,
                                    result'.key.bean_name).kind = "Return"
                /\ try_resolve_bean(c, result'.key.bean_contract,
                                    result'.key.bean_name).value
                      = registrations[SingleValueRegistry(c)[result'.key]].instance
C35_DuplicateLeavesState == [][C35_Step]_vars

\* The same of the converter plugin: nothing changes and the converter
\* registry of the container holds the key as before.
C35_ConverterStep ==
    Duplicate'
    => /\ UNCHANGED <<parent, plugins, plugin_storage, cache, registrations, invocations>>
       /\ \A c \in Containers :
             c = result'.container
             => result'.key \in (DOMAIN ConverterRegistry(c))
                                    \cup (DOMAIN SingleValueRegistry(c))
C35_ConverterDuplicate == [][C35_ConverterStep]_vars

\* C35 witness: a container with a parent that holds the key as well has
\* resolved the key, and a second registration of the key on it has just
\* raised while its cache holds the resolver of its own registration.
C35_Witness ==
    /\ Duplicate
    /\ parent[result.container] # 0
    /\ result.key \in DOMAIN SingleValueRegistry(parent[result.container])
    /\ result.key \in DOMAIN cache[result.container]
    /\ cache[result.container][result.key].registration
          = SingleValueRegistry(result.container)[result.key]

\* ---------------------------------------------------------------------
\* C36: a resolution that ends in not-found or in a raised error leaves the
\* resolver cache of the requesting container exactly as it was before the
\* call.
FailedResolution ==
    /\ result'.op \in {"try_resolve_bean", "resolve_bean"}
    /\ \/ result'.kind = "Raise"
       \/ result'.value = BEAN_NOT_FOUND

C36_Step ==
    FailedResolution => cache'[result'.container] = cache[result'.container]

C36_FailureLeavesCache == [][C36_Step]_vars

\* The same of the failures that the plugins answer, before any resolver is
\* got: not found, or an error raised by reduce or postprocess.
C36_PluginStep ==
    (/\ FailedResolution
     /\ result'.key \notin DOMAIN cache[result'.container]
     /\ ResolveUncached(result'.container, result'.key).kind # "Return")
    => cache' = cache

C36_PluginFailure == [][C36_PluginStep]_vars

\* ---------------------------------------------------------------------
\* C37: every value returned by resolving a ScopedSingleton key is the value
\* returned by a completed invocation of the producer of the registration
\* that answers, also after an earlier invocation has raised an error.
\* The values that completed invocations of the factory of r have returned.
CompletedValues(r) ==
    {v \in {FactoryValue(n) : n \in DOMAIN invocations}
           \cup {BuiltValue(n, registrations[d].instance) :
                    n \in DOMAIN invocations, d \in DOMAIN registrations} :
        invocations[v.id] = r}

\* The registration that answers a resolution of key from c: the one of the
\* cached resolver, or else of the nearest container that holds the key.
RECURSIVE AnsweringRegistration(_, _)
AnsweringRegistration(c, key) ==
    IF key \in DOMAIN get_plugin_storage(plugin_storage, c, "SingleValue")
    THEN get_plugin_storage(plugin_storage, c, "SingleValue")[key]
    ELSE IF parent[c] = 0 THEN 0 ELSE AnsweringRegistration(parent[c], key)

AnsweredBy(c, key) ==
    IF key \in DOMAIN cache[c]
    THEN cache[c][key].registration
    ELSE AnsweringRegistration(c, key)

\* The last step is a resolution of the key from c that registration r, a
\* ScopedSingleton, has answered with a value.
ScopedSingletonAnswer(c, r) ==
    /\ result'.op = "try_resolve_bean"
    /\ result'.container = c
    /\ result'.key = RegistrationKey(IBean, NoName)
    /\ result'.kind = "Return"
    /\ AnsweredBy(c, result'.key) = r
    /\ registrations[r].type = "Container"

C37_Step ==
    \A c \in Containers, r \in DOMAIN registrations :
       ScopedSingletonAnswer(c, r) => result'.value \in CompletedValues(r)'

C37_CompletedInvocation == [][C37_Step]_vars

\* The same of the resolutions before which no invocation of the producer
\* has raised: the first one and those that follow a completed invocation.
FailedEarlier(r) == registrations[r].registered /\ registrations[r].value = None

C37_SoundStep ==
    \A c \in Containers, r \in DOMAIN registrations :
       (ScopedSingletonAnswer(c, r) /\ ~FailedEarlier(r))
       => result'.value \in CompletedValues(r)'

C37_NoEarlierFailure == [][C37_SoundStep]_vars

\* ---------------------------------------------------------------------
\* C38: the bean of a ScopedSingleton registration does not depend on which
\* container requests it first: whichever of two containers that the
\* registration answers makes the first request, the bean is built from the
\* same dependencies, those that the owning container resolves.
FirstRequest(c, r) ==
    /\ AnsweredBy(c, RegistrationKey(IBean, NoName)) = r
    /\ registrations[r].type = "Container"
    /\ ~registrations[r].registered

SameBean(a, b) == a.kind = b.kind /\ a.value = b.value /\ a.exc = b.exc

C38_FirstRequester ==
    \A r \in DOMAIN registrations : \A c1, c2 \in Containers :
       (FirstRequest(c1, r) /\ FirstRequest(c2, r))
       => /\ SameBean(try_resolve_bean(c1, IBean, NoName),
                      try_resolve_bean(c2, IBean, NoName))
          /\ SameBean(try_resolve_bean(c1, IBean, NoName),
                      try_resolve_bean(registrations[r].container, IBean, NoName))

\* A descendant that shadows the dependency has made the first request, and
\* the bean is built from the dependency that the owner holds.
C38_Witness ==
    \E r, d, e \in DOMAIN registrations :
       /\ result.op = "try_resolve_bean"
       /\ result.kind = "Return"
       /\ result.key = RegistrationKey(IBean, NoName)
       /\ registrations[r].type = "Container"
       /\ registrations[r].factory = "inject"
       /\ registrations[r].container # result.container
       /\ registrations[r].value = result.value
       /\ registrations[d].key = Dependency
       /\ registrations[d].container = registrations[r].container
       /\ registrations[e].key = Dependency
       /\ registrations[e].container = result.container
       /\ result.value.beans = <<registrations[d].instance>>
       /\ Len(invocations) = 1

\* ---------------------------------------------------------------------
\* C39: throughout a configuration resolution the keys still needed and the
\* keys collected are disjoint and together are the keys needed at the
\* start; a collected key is not asked of a later provider and keeps its
\* value.
CollectedKeys(state) == DOMAIN state.collected_values

FoldInvariant(state, needed) ==
    /\ state.values_left_to_collect \cap CollectedKeys(state) = {}
    /\ state.values_left_to_collect \cup CollectedKeys(state) = needed

\* From the fold state prev to the fold state next: the keys collected stay
\* collected with their values, and what is new was still needed.
FoldStep(prev, next, needed) ==
    /\ FoldInvariant(next, needed)
    /\ \A p \in CollectedKeys(prev) :
          /\ p \in CollectedKeys(next)
          /\ next.collected_values[p] = prev.collected_values[p]
    /\ CollectedKeys(next) \ CollectedKeys(prev) \subseteq prev.values_left_to_collect
    /\ next.values_left_to_collect \subseteq prev.values_left_to_collect

\* The providers of one level, from the one at index i down to the first.
RECURSIVE FoldRule(_, _, _, _)
FoldRule(state, providers, i, needed) ==
    \/ i = 0
    \/ /\ FoldStep(state, CollectFrom(state, registrations[providers[i]].instance), needed)
       /\ FoldRule(CollectFrom(state, registrations[providers[i]].instance),
                   providers, i - 1, needed)

ProvidersAt(level) ==
    LET registry == get_plugin_storage(plugin_storage, level, "Configuration")
    IN  IF "ConfigurationProvider" \in DOMAIN registry
        THEN registry["ConfigurationProvider"] ELSE <<>>

\* One reduce call of the Configuration plugin in a resolution of key from c.
FoldCallRule(c, key, call) ==
    LET needed == Configuration_create_initial_state(key, c).values_left_to_collect
    IN  /\ FoldInvariant(call.state, needed)
        /\ FoldRule(call.state, ProvidersAt(call.level), Len(ProvidersAt(call.level)), needed)
        /\ call.res.kind = "Continue"
           => /\ FoldStep(call.state, call.res.state, needed)
              /\ call.res.state = collect_values_reduce(call.state, c, call.level)

ConfigurationReduce(c, call) ==
    call.op = "reduce" /\ PluginsOf(c)[call.plugin] = "Configuration"

C39_FoldState ==
    \A c \in Containers, t \in ConfigurationContracts :
       \A n \in 1 .. Len(Calls(c, t)) :
          ConfigurationReduce(c, Calls(c, t)[n])
          => FoldCallRule(c, RegistrationKey(t, NoName), Calls(c, t)[n])

\* A resolution of the class from a container with a parent is to come in
\* which the reduce at the parent level is handed a state with a key that
\* the provider of the requesting container has supplied, and the provider
\* of the parent holds that key too.
C39_Witness ==
    \E c \in Containers :
       \E n \in 1 .. Len(Calls(c, ExampleConfigurationClass)) :
          LET call == Calls(c, ExampleConfigurationClass)[n]
          IN  /\ ConfigurationReduce(c, call)
              /\ parent[c] # 0
              /\ call.level = parent[c]
              /\ CollectedKeys(call.state) = {"baz"}
              /\ call.state.values_left_to_collect = {"boo"}
              /\ \E i \in 1 .. Len(ProvidersAt(call.level)) :
                    get_value(registrations[ProvidersAt(call.level)[i]].instance, "baz")
                       # MISSING
              /\ call.res.kind = "Return"

\* ---------------------------------------------------------------------
\* C40: a resolution of a configuration class or field from c yields the
\* values that the providers registered on c and its ancestors at the time
\* of the call give, also when the key has been resolved from c before and
\* a provider has been registered on c since.
\* The outcome res is the one that the plugins answer with fresh.
Reflects(res, fresh) ==
    /\ fresh.kind = "Return"
       => res.kind = "Return" /\ res.value = fresh.resolver.value
    /\ fresh.kind = "Raise" => res.kind = "Raise" /\ res.exc = fresh.exc
    /\ fresh.kind = "NotFound" => res.value = BEAN_NOT_FOUND

C40_Step ==
    \A c \in Containers, t \in ConfigurationContracts :
       (/\ result'.op = "try_resolve_bean"
        /\ result'.container = c
        /\ result'.key = RegistrationKey(t, NoName))
       => Reflects(result', ResolveUncached(c, RegistrationKey(t, NoName)))

C40_CurrentProviders == [][C40_Step]_vars

\* The same of the resolutions of a key that the container has not resolved
\* since its cache entry was last purged.
C40_UncachedStep ==
    \A c \in Containers, t \in ConfigurationContracts :
       (/\ result'.op = "try_resolve_bean"
        /\ result'.container = c
        /\ result'.key = RegistrationKey(t, NoName)
        /\ result'.key \notin DOMAIN cache[c])
       => Reflects(result', ResolveUncached(c, RegistrationKey(t, NoName)))

C40_Uncached == [][C40_UncachedStep]_vars

====
